---- MODULE Spec2Model ----
(***************************************************************************)
(* Model of _scripts/convert_fencing_results.py: the conversion of CSV     *)
(* tournament results (plus optional .md intro files) to Jekyll posts.     *)
(*                                                                         *)
(* A Python str is a sequence of one-character strings; BOM stands for the *)
(* single character U+FEFF.  A Python dict is a sequence of <<key, value>> *)
(* pairs with pairwise distinct keys, in insertion order.  A raised        *)
(* exception is a record [ok |-> FALSE, type |-> ..., msg |-> ...], a      *)
(* normal return a record with ok |-> TRUE.                                *)
(***************************************************************************)
EXTENDS Integers, Sequences, FiniteSets, TLC

(***************************************************************************)
(* str primitives                                                          *)
(***************************************************************************)
\* single characters outside ASCII
BOM == "U+FEFF"
CheckMark == "U+2713"

\* the characters str.strip() removes (those of them the model's texts use)
Whitespace == {" ", "\n", "\t"}

LowerLetters ==
    <<"a", "b", "c", "d", "e", "f", "g", "h", "i", "j", "k", "l", "m",
      "n", "o", "p", "q", "r", "s", "t", "u", "v", "w", "x", "y", "z">>

UpperLetters ==
    <<"A", "B", "C", "D", "E", "F", "G", "H", "I", "J", "K", "L", "M",
      "N", "O", "P", "Q", "R", "S", "T", "U", "V", "W", "X", "Y", "Z">>

DigitChars == <<"0", "1", "2", "3", "4", "5", "6", "7", "8", "9">>

Range(f) == {f[i] : i \in DOMAIN f}

IsDigit(c) == c \in Range(DigitChars)

DigitVal(c) == (CHOOSE i \in 1..10 : DigitChars[i] = c) - 1

\* c in s, for a character c
HasChar(s, c) == \E i \in 1..Len(s) : s[i] = c

\* s.startswith(p)
StartsWith(s, p) == Len(s) >= Len(p) /\ SubSeq(s, 1, Len(p)) = p

\* s.find(p, i) with 1-based positions; 0 when p does not occur at or after i
Find(s, p, i) ==
    LET at == {k \in i..(Len(s) - Len(p) + 1) : SubSeq(s, k, k + Len(p) - 1) = p} IN
    IF at = {} THEN 0 ELSE CHOOSE k \in at : \A j \in at : k <= j

\* s.split(p, maxsplit)
RECURSIVE Split(_, _, _)
Split(s, p, maxsplit) ==
    LET at == Find(s, p, 1) IN
    IF maxsplit = 0 \/ at = 0 THEN <<s>>
    ELSE <<SubSeq(s, 1, at - 1)>>
         \o Split(SubSeq(s, at + Len(p), Len(s)), p, maxsplit - 1)

\* s.split(p): no limit on the number of splits
SplitAll(s, p) == Split(s, p, Len(s))

\* s.lstrip(chars), s.rstrip(chars), s.strip(chars)
RECURSIVE LStrip(_, _)
LStrip(s, chars) ==
    IF s # <<>> /\ Head(s) \in chars THEN LStrip(Tail(s), chars) ELSE s

RECURSIVE RStrip(_, _)
RStrip(s, chars) ==
    IF s # <<>> /\ s[Len(s)] \in chars
    THEN RStrip(SubSeq(s, 1, Len(s) - 1), chars) ELSE s

Strip(s, chars) == LStrip(RStrip(s, chars), chars)

\* sep.join(parts)
RECURSIVE Join(_, _)
Join(sep, parts) ==
    IF parts = <<>> THEN <<>>
    ELSE IF Len(parts) = 1 THEN parts[1]
    ELSE parts[1] \o sep \o Join(sep, Tail(parts))

\* s.replace(a, b) for characters a and b
ReplaceChar(s, a, b) == [i \in 1..Len(s) |-> IF s[i] = a THEN b ELSE s[i]]

IsCased(c) == c \in Range(LowerLetters) \/ c \in Range(UpperLetters)

ToUpper(c) ==
    IF c \in Range(LowerLetters)
    THEN UpperLetters[CHOOSE i \in 1..26 : LowerLetters[i] = c] ELSE c

ToLower(c) ==
    IF c \in Range(UpperLetters)
    THEN LowerLetters[CHOOSE i \in 1..26 : UpperLetters[i] = c] ELSE c

\* s.title(): a cased character is upper-cased when the character before it
\* is not cased, and lower-cased otherwise
Title(s) ==
    [i \in 1..Len(s) |->
        IF i > 1 /\ IsCased(s[i - 1]) THEN ToLower(s[i]) ELSE ToUpper(s[i])]

(***************************************************************************)
(* dict primitives                                                         *)
(***************************************************************************)
DictKeys(d) == [i \in 1..Len(d) |-> d[i][1]]

DictHas(d, k) == \E i \in 1..Len(d) : d[i][1] = k

DictGet(d, k) == d[CHOOSE i \in 1..Len(d) : d[i][1] = k][2]

\* d[k] = v: an existing key keeps its position, a new key goes last
DictSet(d, k, v) ==
    IF DictHas(d, k)
    THEN [i \in 1..Len(d) |-> IF d[i][1] = k THEN <<k, v>> ELSE d[i]]
    ELSE Append(d, <<k, v>>)

\* d.get(k, default)
DictGetOr(d, k, default) == IF DictHas(d, k) THEN DictGet(d, k) ELSE default

(***************************************************************************)
(* class FrontmatterParser                                                 *)
(***************************************************************************)
Delimiter == <<"-", "-", "-", "\n">>

\* the dict comprehension of _parse_frontmatter_lines, line by line
RECURSIVE ParseLines(_, _)
ParseLines(lines, acc) ==
    IF lines = <<>> THEN acc
    ELSE LET line == Head(lines)
             parts == Split(line, <<":">>, 1)
         IN  IF HasChar(line, ":")
             THEN ParseLines(Tail(lines),
                      DictSet(acc,
                              Strip(parts[1], Whitespace),
                              Strip(Strip(Strip(parts[2], Whitespace), {"\""}), {"'"})))
             ELSE ParseLines(Tail(lines), acc)

FrontmatterParser_parse_frontmatter_lines(frontmatter_text) ==
    ParseLines(SplitAll(Strip(frontmatter_text, Whitespace), <<"\n">>), <<>>)

FrontmatterParser_parse_with_frontmatter(content) ==
    LET parts == Split(content, Delimiter, 2) IN
    IF Len(parts) < 3 THEN <<<<>>, Strip(content, Whitespace)>>
    ELSE <<FrontmatterParser_parse_frontmatter_lines(parts[2]),
           Strip(parts[3], Whitespace)>>

FrontmatterParser_parse(content) ==
    IF ~StartsWith(content, Delimiter) THEN <<<<>>, Strip(content, Whitespace)>>
    ELSE FrontmatterParser_parse_with_frontmatter(content)

(***************************************************************************)
(* exceptions and str() of numbers                                         *)
(***************************************************************************)
Return(v) == [ok |-> TRUE, val |-> v]

\* raise type(msg): str(e) is msg
Raise(type, msg) == [ok |-> FALSE, type |-> type, msg |-> msg]

\* the exception types isinstance(error, ValueError) holds for
ValueErrors == {<<"V", "a", "l", "u", "e", "E", "r", "r", "o", "r">>, <<"U", "n", "i", "c",
        "o", "d", "e", "D", "e", "c", "o", "d", "e", "E", "r", "r", "o", "r">>}

\* str(n) for an int n >= 0
RECURSIVE IntToStr(_)
IntToStr(n) ==
    IF n < 10 THEN <<DigitChars[n + 1]>>
    ELSE IntToStr(n \div 10) \o <<DigitChars[(n % 10) + 1]>>

\* str(ns) for a list of ints
ListToStr(ns) ==
    <<"[">> \o Join(<<",", " ">>, [i \in 1..Len(ns) |-> IntToStr(ns[i])]) \o <<"]">>

(***************************************************************************)
(* class FrontmatterBuilder                                                *)
(***************************************************************************)
ReservedKeys == {<<"l", "a", "y", "o", "u", "t">>, <<"t", "i", "t", "l", "e">>, <<"d", "a",
        "t", "e">>}

RECURSIVE MergeCustom(_, _)
MergeCustom(items, result) ==
    IF items = <<>> THEN result
    ELSE MergeCustom(Tail(items),
             IF Head(items)[1] \notin ReservedKeys
             THEN DictSet(result, Head(items)[1], Head(items)[2])
             ELSE result)

\* _merge_custom_fields leaving only title and date to _merge_overridable_fields
RECURSIVE FrontmatterBuilder_merge_custom_fields_with_layout(_, _)
FrontmatterBuilder_merge_custom_fields_with_layout(user_data, result) ==
    IF user_data = <<>> THEN result
    ELSE FrontmatterBuilder_merge_custom_fields_with_layout(Tail(user_data),
             IF Head(user_data)[1] \notin {<<"t", "i", "t", "l", "e">>, <<"d", "a", "t", "e">>}
             THEN DictSet(result, Head(user_data)[1], Head(user_data)[2])
             ELSE result)

FrontmatterBuilder_merge_custom_fields(user_data, result) ==
    MergeCustom(user_data, result)

RECURSIVE MergeOverridable(_, _, _)
MergeOverridable(keys, user_data, result) ==
    IF keys = <<>> THEN result
    ELSE MergeOverridable(Tail(keys), user_data,
             IF DictHas(user_data, Head(keys))
             THEN DictSet(result, Head(keys), DictGet(user_data, Head(keys)))
             ELSE result)

\* _merge_overridable_fields keeping the defaults
FrontmatterBuilder_merge_overridable_fields_skipped(user_data, result) == result

FrontmatterBuilder_merge_overridable_fields(user_data, result) ==
    MergeOverridable(<<<<"t", "i", "t", "l", "e">>, <<"d", "a", "t", "e">>>>, user_data, result)

FrontmatterBuilder_merge_frontmatter(user_data, defaults) ==
    FrontmatterBuilder_merge_overridable_fields(user_data,
        FrontmatterBuilder_merge_custom_fields(user_data, defaults))

\* _format_frontmatter_line quoting only the values with a space
FrontmatterBuilder_format_frontmatter_line_spaces(key, value) ==
    IF HasChar(value, " ")
    THEN key \o <<":", " ", "\"">> \o value \o <<"\"">>
    ELSE key \o <<":", " ">> \o value

FrontmatterBuilder_format_frontmatter_line(key, value) ==
    IF HasChar(value, " ") \/ HasChar(value, ":")
    THEN key \o <<":", " ", "\"">> \o value \o <<"\"">>
    ELSE key \o <<":", " ">> \o value

FrontmatterBuilder_format_frontmatter(data) ==
    Join(<<"\n">>,
         <<<<"-", "-", "-">>>>
         \o [i \in 1..Len(data) |->
                FrontmatterBuilder_format_frontmatter_line(data[i][1], data[i][2])]
         \o <<<<"-", "-", "-">>, <<>>>>)

FrontmatterBuilder_build(user_data, defaults) ==
    FrontmatterBuilder_format_frontmatter(
        FrontmatterBuilder_merge_frontmatter(user_data, defaults))

(***************************************************************************)
(* class DateExtractor                                                     *)
(***************************************************************************)
\* s[i], or the empty string past the end of s
At(s, i) == IF i >= 1 /\ i <= Len(s) THEN s[i] ELSE ""

DigitIn(c, lo, hi) == IsDigit(c) /\ DigitVal(c) \in lo..hi

\* %d of strptime, the regex 3[0-1]|[1-2]\d|0[1-9]|[1-9]| [1-9] tried at
\* position j: the number of characters the first matching alternative takes
DayLen(s, j) ==
    IF At(s, j) = "3" /\ DigitIn(At(s, j + 1), 0, 1) THEN 2
    ELSE IF DigitIn(At(s, j), 1, 2) /\ IsDigit(At(s, j + 1)) THEN 2
    ELSE IF At(s, j) = "0" /\ DigitIn(At(s, j + 1), 1, 9) THEN 2
    ELSE IF DigitIn(At(s, j), 1, 9) THEN 1
    ELSE IF At(s, j) = " " /\ DigitIn(At(s, j + 1), 1, 9) THEN 2
    ELSE 0

\* whether the rest of the format, -%d, matches at position j
DayFollows(s, j) == At(s, j) = "-" /\ DayLen(s, j + 1) > 0

\* %m of strptime, the regex 1[0-2]|0[1-9]|[1-9] tried at position i: the
\* number of characters of the first alternative after which -%d matches
MonthLen(s, i) ==
    IF At(s, i) = "1" /\ DigitIn(At(s, i + 1), 0, 2) /\ DayFollows(s, i + 2) THEN 2
    ELSE IF At(s, i) = "0" /\ DigitIn(At(s, i + 1), 1, 9) /\ DayFollows(s, i + 2) THEN 2
    ELSE IF DigitIn(At(s, i), 1, 9) /\ DayFollows(s, i + 1) THEN 1
    ELSE 0

\* int() of the digits of s[i..j], blanks skipped
RECURSIVE ToInt(_, _, _)
ToInt(s, i, j) ==
    IF j < i THEN 0
    ELSE IF s[j] = " " THEN ToInt(s, i, j - 1)
    ELSE ToInt(s, i, j - 1) * 10 + DigitVal(s[j])

IsLeap(year) == year % 4 = 0 /\ (year % 100 # 0 \/ year % 400 = 0)

DaysInMonth(year, month) ==
    IF month = 2 THEN (IF IsLeap(year) THEN 29 ELSE 28)
    ELSE IF month \in {4, 6, 9, 11} THEN 30
    ELSE 31

\* the fields year, month and day make a date (datetime(year, month, day)
\* does not raise)
IsDate(year, month, day) == year >= 1 /\ day <= DaysInMonth(year, month)

\* the month takes m characters and the day d: nothing of s is left
\* unconverted after them, and the fields make a date
StrptimeFields(s, m, d) ==
    /\ 6 + m + d = Len(s)
    /\ IsDate(ToInt(s, 1, 4), ToInt(s, 6, 5 + m), ToInt(s, 6 + m + 1, 6 + m + d))

StrptimeMonth(s, m) == m > 0 /\ StrptimeFields(s, m, DayLen(s, 6 + m + 1))

\* datetime.strptime(s, '%Y/%m/%d'): the format with the wrong separator
Strptime_slashes(s) ==
    /\ \A i \in 1..4 : IsDigit(At(s, i))
    /\ At(s, 5) = "/"
    /\ StrptimeMonth(ReplaceChar(s, "/", "-"), MonthLen(ReplaceChar(s, "/", "-"), 6))

\* whether datetime.strptime(s, '%Y-%m-%d') returns (it raises ValueError
\* otherwise): the regex \d\d\d\d-%m-%d matches a prefix of s, nothing is left
\* unconverted after it, and the fields make a date
Strptime(s) ==
    /\ \A i \in 1..4 : IsDigit(At(s, i))
    /\ At(s, 5) = "-"
    /\ StrptimeMonth(s, MonthLen(s, 6))

\* _validate_date_format raising without the offending string in the message
DateExtractor_validate_date_format_unnamed(date_str) ==
    IF Strptime(date_str) THEN Return(<<>>)
    ELSE Raise(<<"V", "a", "l", "u", "e", "E", "r", "r", "o", "r">>,
               <<"I", "n", "v", "a", "l", "i", "d", " ", "d", "a", "t", "e", " ", "f", "o",
                 "r", "m", "a", "t", "\n">>
               \o <<"\t", "E", "x", "p", "e", "c", "t", "e", "d", " ", "f", "o", "r", "m", "a",
                    "t", ":", " ", "Y", "Y", "Y", "Y", "-", "M", "M", "-", "D", "D", " ", "(",
                    "e", ".", "g", ".", ",", " ", "2", "0", "2", "5", "-", "0", "3", "-", "1",
                    "5", ")", "\n">>
               \o <<"\t", "O", "r", " ", "w", "i", "t", "h", " ", "t", "i", "m", "e", ":", " ",
                    "Y", "Y", "Y", "Y", "-", "M", "M", "-", "D", "D", " ", "H", "H", ":", "M",
                    "M", ":", "S", "S", " ", "(", "e", ".", "g", ".", ",", " ", "2", "0", "2",
                    "5", "-", "0", "3", "-", "1", "5", " ", "1", "4", ":", "3", "0", ":", "0",
                    "0", ")">>)

DateExtractor_validate_date_format(date_str) ==
    IF Strptime(date_str) THEN Return(<<>>)
    ELSE Raise(<<"V", "a", "l", "u", "e", "E", "r", "r", "o", "r">>,
               <<"I", "n", "v", "a", "l", "i", "d", " ", "d", "a", "t", "e", " ", "f", "o",
                 "r", "m", "a", "t", ":", " ", "'">> \o date_str \o <<"'", "\n">>
               \o <<"\t", "E", "x", "p", "e", "c", "t", "e", "d", " ", "f", "o", "r", "m", "a",
                    "t", ":", " ", "Y", "Y", "Y", "Y", "-", "M", "M", "-", "D", "D", " ", "(",
                    "e", ".", "g", ".", ",", " ", "2", "0", "2", "5", "-", "0", "3", "-", "1",
                    "5", ")", "\n">>
               \o <<"\t", "O", "r", " ", "w", "i", "t", "h", " ", "t", "i", "m", "e", ":", " ",
                    "Y", "Y", "Y", "Y", "-", "M", "M", "-", "D", "D", " ", "H", "H", ":", "M",
                    "M", ":", "S", "S", " ", "(", "e", ".", "g", ".", ",", " ", "2", "0", "2",
                    "5", "-", "0", "3", "-", "1", "5", " ", "1", "4", ":", "3", "0", ":", "0",
                    "0", ")">>)

DateExtractor_parse_datetime(date_value) ==
    LET separator == IF HasChar(date_value, " ") THEN <<" ">> ELSE <<"T">>
        file_date == SplitAll(date_value, separator)[1]
        valid == DateExtractor_validate_date_format(file_date)
    IN  IF valid.ok THEN Return(<<date_value, file_date>>) ELSE valid

DateExtractor_parse_date(date_value) ==
    IF HasChar(date_value, " ") \/ HasChar(date_value, "T")
    THEN DateExtractor_parse_datetime(date_value)
    ELSE LET valid == DateExtractor_validate_date_format(date_value)
         IN  IF valid.ok THEN Return(<<date_value, date_value>>) ELSE valid

\* now is datetime.now().strftime('%Y-%m-%d')
DateExtractor_use_today(now) == Return(<<now, now>>)

DateExtractor_extract(frontmatter, now) ==
    IF ~DictHas(frontmatter, <<"d", "a", "t", "e">>) THEN DateExtractor_use_today(now)
    ELSE DateExtractor_parse_date(DictGet(frontmatter, <<"d", "a", "t", "e">>))

(***************************************************************************)
(* class CsvReader.  A CSV file is a record: size, its st_size in bytes;   *)
(* fault, what reading it runs into ("none", "stat" for an OSError of      *)
(* stat(), "csv" for a csv.Error, "decode" for a UnicodeDecodeError);      *)
(* rows, what list(csv.reader(f)) returns when nothing is raised.          *)
(***************************************************************************)
CsvReader_MAX_SIZE_MB == 10

BytesPerMB == 1024 * 1024

\* f"{file_size_mb:.1f}" for file_size_mb = size / (1024 * 1024)
FormatMB(size) ==
    LET tenths == (20 * size + BytesPerMB) \div (2 * BytesPerMB)
    IN  IntToStr(tenths \div 10) \o <<".">> \o IntToStr(tenths % 10)

\* str(e) of the library's exceptions
CsvErrorText == <<"l", "i", "n", "e", " ", "c", "o", "n", "t", "a", "i", "n", "s", " ", "N",
                  "U", "L">>
DecodeErrorText == <<"'", "u", "t", "f", "-", "8", "'", " ", "c", "o", "d", "e", "c", " ", "c",
                     "a", "n", "'", "t", " ", "d", "e", "c", "o", "d", "e", " ", "b", "y", "t",
                     "e", " ", "0", "x", "d", "0", " ", "i", "n", " ", "p", "o", "s", "i", "t",
                     "i", "o", "n", " ", "0", ":", " ", "i", "n", "v", "a", "l", "i", "d", " ",
                     "c", "o", "n", "t", "i", "n", "u", "a", "t", "i", "o", "n", " ", "b", "y",
                     "t", "e">>
StatErrorText == <<"[", "E", "r", "r", "n", "o", " ", "1", "3", "]", " ", "P", "e", "r", "m",
                   "i", "s", "s", "i", "o", "n", " ", "d", "e", "n", "i", "e", "d">>

CsvReader_validate_file_size(csv_file) ==
    IF csv_file.fault = "stat" THEN Raise(<<"P", "e", "r", "m", "i", "s", "s", "i", "o", "n",
            "E", "r", "r", "o", "r">>, StatErrorText)
    ELSE IF csv_file.size > CsvReader_MAX_SIZE_MB * BytesPerMB
    THEN Raise(<<"V", "a", "l", "u", "e", "E", "r", "r", "o", "r">>,
               <<"C", "S", "V", " ", "f", "i", "l", "e", " ", "t", "o", "o", " ", "l", "a",
                 "r", "g", "e", ":", " ">> \o FormatMB(csv_file.size) \o <<"M", "B", " ", "(",
                       "m", "a", "x", ":", " ">>
               \o IntToStr(CsvReader_MAX_SIZE_MB) \o <<"M", "B", ")", "\n">>
               \o <<"\t", "C", "o", "n", "s", "i", "d", "e", "r", " ", "s", "p", "l", "i", "t",
                    "t", "i", "n", "g", " ", "i", "n", "t", "o", " ", "m", "u", "l", "t", "i",
                    "p", "l", "e", " ", "t", "o", "u", "r", "n", "a", "m", "e", "n", "t", " ",
                    "f", "i", "l", "e", "s", ".">>)
    ELSE Return(<<>>)

CsvReader_read_csv_rows(csv_file) ==
    IF csv_file.fault = "csv"
    THEN Raise(<<"V", "a", "l", "u", "e", "E", "r", "r", "o", "r">>,
               <<"M", "a", "l", "f", "o", "r", "m", "e", "d", " ", "C", "S", "V", " ", "f",
                 "i", "l", "e", "\n">>
               \o <<"\t">> \o CsvErrorText \o <<"\n">>
               \o <<"\t", "C", "h", "e", "c", "k", " ", "f", "o", "r", " ", "u", "n", "c", "l",
                    "o", "s", "e", "d", " ", "q", "u", "o", "t", "e", "s", ",", " ", "m", "i",
                    "s", "s", "i", "n", "g", " ", "c", "o", "m", "m", "a", "s", ",", " ", "o",
                    "r", " ", "e", "x", "t", "r", "a", " ", "d", "e", "l", "i", "m", "i", "t",
                    "e", "r", "s", ".">>)
    ELSE IF csv_file.fault = "decode"
    THEN Raise(<<"V", "a", "l", "u", "e", "E", "r", "r", "o", "r">>,
               <<"F", "i", "l", "e", " ", "e", "n", "c", "o", "d", "i", "n", "g", " ", "e",
                 "r", "r", "o", "r", "\n">>
               \o <<"\t">> \o DecodeErrorText \o <<"\n">>
               \o <<"\t", "S", "a", "v", "e", " ", "t", "h", "e", " ", "C", "S", "V", " ", "f",
                    "i", "l", "e", " ", "a", "s", " ", "U", "T", "F", "-", "8", " ", "e", "n",
                    "c", "o", "d", "i", "n", "g", ".", "\n">>
               \o <<"\t", "I", "s", " ", "t", "h", "e", " ", "f", "i", "l", "e", " ", "a", "c",
                    "t", "u", "a", "l", "l", "y", " ", "a", " ", "C", "S", "V", "?">>)
    ELSE Return(csv_file.rows)

CsvReader_read(csv_file) ==
    LET sized == CsvReader_validate_file_size(csv_file)
    IN  IF sized.ok THEN CsvReader_read_csv_rows(csv_file) ELSE sized

(***************************************************************************)
(* class TableValidator, class TableFormatter                              *)
(***************************************************************************)
\* [x for i, x in enumerate(xs) if keep[i]] as the list of the i + 1
RECURSIVE Mismatched(_, _, _)
Mismatched(rows, width, i) ==
    IF i > Len(rows) THEN <<>>
    ELSE (IF Len(rows[i]) # width THEN <<i>> ELSE <<>>)
         \o Mismatched(rows, width, i + 1)

\* TableValidator.validate stopping at the first row that differs
TableValidator_validate_first_only(rows, headers) ==
    IF \A i \in 1..Len(rows) : Len(rows[i]) = Len(headers) THEN <<>>
    ELSE <<CHOOSE i \in 1..Len(rows) :
              /\ Len(rows[i]) # Len(headers)
              /\ \A j \in 1..(i - 1) : Len(rows[j]) = Len(headers)>>

TableValidator_validate(rows, headers) ==
    IF rows = <<>> THEN <<>> ELSE Mismatched(rows, Len(headers), 1)

NoData == <<"*", "N", "o", " ", "d", "a", "t", "a", " ", "a", "v", "a", "i", "l", "a", "b",
            "l", "e", "*", "\n">>

TableFormatter_clean_headers(headers) ==
    IF ~(headers # <<>> /\ StartsWith(headers[1], <<BOM>>)) THEN headers
    ELSE [headers EXCEPT ![1] = LStrip(headers[1], {BOM})]

TableFormatter_format_header_row(headers) ==
    <<"|", " ">> \o Join(<<" ", "|", " ">>, headers) \o <<" ", "|">>

TableFormatter_format_separator_row(headers) ==
    <<"|", " ">> \o Join(<<" ", "|", " ">>, [i \in 1..Len(headers) |-> <<"-", "-", "-">>]) \o <<
            " ", "|">>

\* _pad_row slicing one cell short
TableFormatter_pad_row_short(row, target_length) ==
    SubSeq(row \o [i \in 1..target_length |-> <<>>], 1, target_length - 1)

\* (row + [""] * target_length)[:target_length]
TableFormatter_pad_row(row, target_length) ==
    SubSeq(row \o [i \in 1..target_length |-> <<>>], 1, target_length)

TableFormatter_format_data_rows(headers, data_rows) ==
    [i \in 1..Len(data_rows) |->
        <<"|", " ">> \o Join(<<" ", "|", " ">>, TableFormatter_pad_row(data_rows[i], Len(headers)))
        \o <<" ", "|">>]

TableFormatter_build_table(headers, data_rows) ==
    Join(<<"\n">>,
         <<TableFormatter_format_header_row(headers),
           TableFormatter_format_separator_row(headers)>>
         \o TableFormatter_format_data_rows(headers, data_rows))
    \o <<"\n">>

TableFormatter_format(rows) ==
    IF rows = <<>> THEN NoData
    ELSE TableFormatter_build_table(TableFormatter_clean_headers(rows[1]), Tail(rows))

(***************************************************************************)
(* class IntroContentReader.  An .md file is a record: exists; decodable,  *)
(* whether its bytes are UTF-8; content, its text.                         *)
(***************************************************************************)
IntroContentReader_read_md_file(md_file) ==
    IF ~md_file.decodable THEN Raise(<<"U", "n", "i", "c", "o", "d", "e", "D", "e", "c", "o",
                                       "d", "e", "E", "r", "r", "o", "r">>, DecodeErrorText)
    ELSE Return(FrontmatterParser_parse(md_file.content))

IntroContentReader_read(md_file) ==
    IF ~md_file.exists THEN Return(<<<<>>, <<>>>>)
    ELSE IntroContentReader_read_md_file(md_file)

(***************************************************************************)
(* class TitleGenerator, PostContentBuilder, OutputFilenameGenerator       *)
(***************************************************************************)
\* TitleGenerator.generate without .title()
TitleGenerator_generate_untitled(filename) == ReplaceChar(filename, "-", " ")

TitleGenerator_generate(filename) == Title(ReplaceChar(filename, "-", " "))

\* PostContentBuilder.build separating the intro from the table by one newline
PostContentBuilder_build_one_newline(frontmatter, intro, table) ==
    IF intro = <<>> THEN frontmatter \o table
    ELSE frontmatter \o intro \o <<"\n">> \o table

PostContentBuilder_build(frontmatter, intro, table) ==
    IF intro = <<>> THEN frontmatter \o table
    ELSE frontmatter \o intro \o <<"\n", "\n">> \o table

\* OutputFilenameGenerator.generate naming the file by its date alone
OutputFilenameGenerator_generate_date_only(file_date, stem) ==
    file_date \o <<".", "m", "d">>

OutputFilenameGenerator_generate(file_date, stem) ==
    file_date \o <<"-">> \o stem \o <<".", "m", "d">>

(***************************************************************************)
(* class Logger: a line of console output is the Logger method that        *)
(* printed it and the message it was given                                 *)
(***************************************************************************)
Logged(level, message) == [level |-> level, message |-> message]

(***************************************************************************)
(* class ResultsGenerator: one tournament.  A tournament (csv_path) is a   *)
(* record: stem, the file name without .csv; csv, the CSV file; md, the    *)
(* .md file of the same stem.  A function that logs returns the lines it   *)
(* logged as log, also when it raises; one that writes gets the files of   *)
(* posts_dir as files and returns them as files.  Where a function goes on *)
(* with the value of a call, the rest of it is an operator of that value.  *)
(***************************************************************************)
PathName(csv_path) == csv_path.stem \o <<".", "c", "s", "v">>

\* _read_tournament_data after date_extractor.extract
ReadTournamentData_date(rows, intro, date) ==
    IF ~date.ok THEN date
    ELSE Return([rows |-> rows.val,
                 intro_frontmatter |-> intro.val[1],
                 intro_content |-> intro.val[2],
                 date_str |-> date.val[1],
                 file_date |-> date.val[2]])

\* _read_tournament_data after intro_reader.read
ReadTournamentData_intro(rows, intro, now) ==
    IF ~intro.ok THEN intro
    ELSE ReadTournamentData_date(rows, intro, DateExtractor_extract(intro.val[1], now))

\* _read_tournament_data after csv_reader.read
ReadTournamentData_rows(rows, csv_path, now) ==
    IF ~rows.ok THEN rows
    ELSE ReadTournamentData_intro(rows, IntroContentReader_read(csv_path.md), now)

\* _read_tournament_data reading the .md file and its date before the CSV file
ResultsGenerator_read_tournament_data_metadata_first(csv_path, now) ==
    LET intro == IntroContentReader_read(csv_path.md) IN
    IF ~intro.ok THEN intro
    ELSE IF ~DateExtractor_extract(intro.val[1], now).ok
    THEN DateExtractor_extract(intro.val[1], now)
    ELSE ReadTournamentData_rows(CsvReader_read(csv_path.csv), csv_path, now)

ResultsGenerator_read_tournament_data(csv_path, now) ==
    ReadTournamentData_rows(CsvReader_read(csv_path.csv), csv_path, now)

ResultsGenerator_log_intro_status(intro_fm, intro_content, csv_path) ==
    IF intro_content = <<>> /\ intro_fm = <<>>
    THEN <<Logged("info", <<"N", "o", " ", "i", "n", "t", "r", "o", " ", "c", "o", "n", "t",
                            "e", "n", "t", " ", "f", "o", "u", "n", "d", " ", "(", "l", "o",
                            "o", "k", "e", "d", " ", "f", "o", "r", " ">>
                          \o csv_path.stem \o <<".", "m", "d", ")">>)>>
    ELSE IF intro_fm # <<>>
    THEN <<Logged("success", <<"F", "o", "u", "n", "d", " ", "i", "n", "t", "r", "o", " ", "c",
                               "o", "n", "t", "e", "n", "t", " ", "w", "i", "t", "h", " ", "f",
                               "r", "o", "n", "t", "m", "a", "t", "t", "e", "r", ":", " ">>
                             \o csv_path.stem \o <<".", "m", "d">>)>>
    ELSE <<Logged("success", <<"F", "o", "u", "n", "d", " ", "i", "n", "t", "r", "o", " ", "c",
                               "o", "n", "t", "e", "n", "t", ":", " ">> \o csv_path.stem \o <<
            ".", "m", "d">>)>>

ResultsGenerator_log_date_info(intro_fm, date_str) ==
    IF ~DictHas(intro_fm, <<"d", "a", "t", "e">>)
    THEN <<Logged("info", <<"N", "o", " ", "d", "a", "t", "e", " ", "f", "o", "u", "n", "d",
                            ",", " ", "u", "s", "i", "n", "g", " ", "t", "o", "d", "a", "y",
                            ":", " ">> \o date_str)>>
    ELSE <<>>

\* _validate_table_structure after table_validator.validate
ValidateTableStructure_inconsistent(inconsistent, headers) ==
    IF inconsistent # <<>>
    THEN Raise(<<"V", "a", "l", "u", "e", "E", "r", "r", "o", "r">>,
               <<"I", "n", "c", "o", "n", "s", "i", "s", "t", "e", "n", "t", " ", "c", "o",
                 "l", "u", "m", "n", " ", "c", "o", "u", "n", "t", " ", "i", "n", " ", "r",
                 "o", "w", "s", ":", " ">> \o ListToStr(inconsistent) \o <<"\n">>
               \o <<"\t", "E", "x", "p", "e", "c", "t", "e", "d", " ">> \o IntToStr(Len(headers))
               \o <<" ", "c", "o", "l", "u", "m", "n", "(", "s", ")", " ", "t", "o", " ", "m",
                    "a", "t", "c", "h", " ", "h", "e", "a", "d", "e", "r", "s", ":", " ">> \o Join(<<
                       ",", " ">>, headers) \o <<"\n">>
               \o <<"\t", "C", "h", "e", "c", "k", " ", "t", "h", "a", "t", " ", "a", "l", "l",
                    " ", "d", "a", "t", "a", " ", "r", "o", "w", "s", " ", "h", "a", "v", "e",
                    " ", "t", "h", "e", " ", "s", "a", "m", "e", " ", "n", "u", "m", "b", "e",
                    "r", " ", "o", "f", " ", "c", "o", "l", "u", "m", "n", "s", " ", "a", "s",
                    " ", "t", "h", "e", " ", "h", "e", "a", "d", "e", "r", " ", "r", "o", "w",
                    ".">>)
    ELSE Return(<<>>)

ResultsGenerator_validate_table_structure(data_rows, headers) ==
    ValidateTableStructure_inconsistent(
        TableValidator_validate(data_rows, headers), headers)

\* _generate_table after _validate_table_structure
GenerateTable_validated(valid, rows) ==
    IF ~valid.ok
    THEN [ok |-> FALSE, type |-> valid.type, msg |-> valid.msg, log |-> <<>>]
    ELSE [ok |-> TRUE,
          val |-> TableFormatter_format(rows),
          log |-> <<Logged("success", <<"G", "e", "n", "e", "r", "a", "t", "e", "d", " ", "t",
                                        "a", "b", "l", "e", " ", "w", "i", "t", "h", " ">>
                           \o IntToStr(Len(Tail(rows))) \o <<" ", "d", "a", "t", "a", " ", "r",
                                   "o", "w", "(", "s", ")">>)>>]

\* _generate_table taking a table without rows for an error
ResultsGenerator_generate_table_rejects_empty(rows) ==
    IF rows = <<>>
    THEN [ok |-> FALSE, type |-> <<"V", "a", "l", "u", "e", "E", "r", "r", "o", "r">>, msg |-> <<
            "E", "m", "p", "t", "y", " ", "C", "S", "V", " ", "f", "i", "l", "e">>, log |-> <<>>]
    ELSE GenerateTable_validated(
             ResultsGenerator_validate_table_structure(Tail(rows), rows[1]), rows)

ResultsGenerator_generate_table(rows) ==
    IF rows = <<>> THEN [ok |-> TRUE, val |-> NoData, log |-> <<>>]
    ELSE GenerateTable_validated(
             ResultsGenerator_validate_table_structure(Tail(rows), rows[1]), rows)

DefaultLayout == <<"p", "o", "s", "t">>

ResultsGenerator_build_frontmatter(csv_path, intro_fm, date_str) ==
    FrontmatterBuilder_build(
        intro_fm,
        <<<<<<"l", "a", "y", "o", "u", "t">>, DefaultLayout>>,
          <<<<"t", "i", "t", "l", "e">>, DictGetOr(intro_fm, <<"t", "i", "t", "l", "e">>,
                                 TitleGenerator_generate(csv_path.stem))>>,
          <<<<"d", "a", "t", "e">>, date_str>>>>)

\* _build_post_content after _generate_table
BuildPostContent_table(table, csv_path, intro_fm, intro_content, date_str) ==
    IF ~table.ok THEN table
    ELSE [ok |-> TRUE,
          val |-> PostContentBuilder_build(
                      ResultsGenerator_build_frontmatter(csv_path, intro_fm, date_str),
                      intro_content, table.val),
          log |-> table.log]

ResultsGenerator_build_post_content(csv_path, rows, intro_fm, intro_content, date_str) ==
    BuildPostContent_table(ResultsGenerator_generate_table(rows),
                           csv_path, intro_fm, intro_content, date_str)

\* PostWriter.write opening the file with mode 'a'
PostWriter_write_appends(files, path, content) ==
    [f \in DOMAIN files \cup {path} |->
        IF f # path THEN files[f]
        ELSE IF f \in DOMAIN files THEN files[f] \o content ELSE content]

\* PostWriter.write: open(path, 'w') and write; files maps a name to a content
PostWriter_write(files, path, content) ==
    [f \in DOMAIN files \cup {path} |-> IF f = path THEN content ELSE files[f]]

\* _write_post after filename_generator.generate
WritePost_filename(filename, content, files) ==
    [name |-> filename, files |-> PostWriter_write(files, filename, content)]

\* returns the name written (output_path.name) and the files of posts_dir
ResultsGenerator_write_post(csv_path, content, file_date, files) ==
    WritePost_filename(OutputFilenameGenerator_generate(file_date, csv_path.stem),
                       content, files)

\* _build_and_write_post after _write_post
BuildAndWritePost_written(written, log) ==
    [ok |-> TRUE, val |-> written.name, log |-> log, files |-> written.files]

\* _build_and_write_post after _build_post_content
BuildAndWritePost_content(post_content, csv_path, data, files) ==
    IF ~post_content.ok
    THEN [ok |-> FALSE, type |-> post_content.type, msg |-> post_content.msg,
          log |-> post_content.log, files |-> files]
    ELSE BuildAndWritePost_written(
             ResultsGenerator_write_post(csv_path, post_content.val, data.file_date, files),
             post_content.log)

\* _build_and_write_post opening the output file before the content is built
ResultsGenerator_build_and_write_post_opens_first(csv_path, data, files) ==
    BuildAndWritePost_content(
        ResultsGenerator_build_post_content(
            csv_path, data.rows, data.intro_frontmatter, data.intro_content, data.date_str),
        csv_path, data,
        ResultsGenerator_write_post(csv_path, <<>>, data.file_date, files).files)

ResultsGenerator_build_and_write_post(csv_path, data, files) ==
    BuildAndWritePost_content(
        ResultsGenerator_build_post_content(
            csv_path, data.rows, data.intro_frontmatter, data.intro_content, data.date_str),
        csv_path, data, files)

\* _process_tournament after _build_and_write_post
ProcessTournament_post(post, log) ==
    IF ~post.ok THEN [post EXCEPT !.log = log \o post.log]
    ELSE [ok |-> TRUE,
          log |-> log \o post.log \o <<Logged("success", <<"G", "e", "n", "e", "r", "a", "t",
                  "e", "d", ":", " ">> \o post.val)>>,
          files |-> post.files]

\* _process_tournament after _read_tournament_data
ProcessTournament_data(data, processing, csv_path, files) ==
    IF ~data.ok
    THEN [ok |-> FALSE, type |-> data.type, msg |-> data.msg,
          log |-> processing, files |-> files]
    ELSE ProcessTournament_post(
             ResultsGenerator_build_and_write_post(csv_path, data.val, files),
             processing
             \o ResultsGenerator_log_intro_status(
                    data.val.intro_frontmatter, data.val.intro_content, csv_path)
             \o ResultsGenerator_log_date_info(
                    data.val.intro_frontmatter, data.val.date_str))

ResultsGenerator_process_tournament(csv_path, now, files) ==
    ProcessTournament_data(
        ResultsGenerator_read_tournament_data(csv_path, now),
        <<Logged("processing", <<"\n", "P", "r", "o", "c", "e", "s", "s", "i", "n", "g", ":",
                                 " ">> \o PathName(csv_path))>>,
        csv_path, files)

ResultsGenerator_log_validation_error(csv_path, error) ==
    <<Logged("error", <<"V", "A", "L", "I", "D", "A", "T", "I", "O", "N", " ", "E", "R", "R",
                        "O", "R", " ", "i", "n", " ">> \o PathName(csv_path)),
      Logged("error", <<"\t">> \o error.msg),
      Logged("info", <<"\t", "F", "i", "x", " ", "t", "h", "e", " ", "i", "s", "s", "u", "e",
                       " ", "i", "n", " ", "_", "f", "e", "n", "c", "i", "n", "g", "-", "r",
                       "e", "s", "u", "l", "t", "s", "/">> \o PathName(csv_path)
                     \o <<" ", "a", "n", "d", " ", "t", "r", "y", " ", "a", "g", "a", "i", "n",
                          ".">>)>>

ResultsGenerator_log_unexpected_error(csv_path, error) ==
    <<Logged("error", <<"U", "N", "E", "X", "P", "E", "C", "T", "E", "D", " ", "E", "R", "R",
                        "O", "R", " ", "i", "n", " ">> \o PathName(csv_path)),
      Logged("error", <<"\t">> \o error.type \o <<":", " ">> \o error.msg),
      Logged("info", <<"\t", "T", "h", "i", "s", " ", "m", "a", "y", " ", "b", "e", " ", "a",
                       " ", "b", "u", "g", ".", " ", "C", "h", "e", "c", "k", " ", "_", "f",
                       "e", "n", "c", "i", "n", "g", "-", "r", "e", "s", "u", "l", "t", "s",
                       "/">> \o PathName(csv_path)
                     \o <<" ", "f", "o", "r", " ", "i", "s", "s", "u", "e", "s", ".">>)>>

ResultsGenerator_log_error(csv_path, error) ==
    IF error.type \in ValueErrors
    THEN ResultsGenerator_log_validation_error(csv_path, error)
    ELSE ResultsGenerator_log_unexpected_error(csv_path, error)

\* _try_process_tournament after _process_tournament; error is <<>> for None
\* and <<(csv_path.name, str(e))>> otherwise
TryProcessTournament_done(done, csv_path) ==
    IF done.ok THEN [error |-> <<>>, log |-> done.log, files |-> done.files]
    ELSE [error |-> <<<<PathName(csv_path), done.msg>>>>,
          log |-> done.log \o ResultsGenerator_log_error(csv_path, done),
          files |-> done.files]

ResultsGenerator_try_process_tournament(csv_path, now, files) ==
    TryProcessTournament_done(
        ResultsGenerator_process_tournament(csv_path, now, files), csv_path)

RECURSIVE ErrorLines(_)
ErrorLines(errs) ==
    IF errs = <<>> THEN <<>>
    ELSE <<Logged("error", <<"-", " ">> \o Head(errs)[1] \o <<":", " ">> \o Head(errs)[2])>>
         \o ErrorLines(Tail(errs))

ResultsGenerator_print_error_summary(errs) ==
    <<Logged("header", <<"F", "A", "I", "L", "E", "D", ":", " ">> \o IntToStr(Len(errs)) \o <<
            " ", "f", "i", "l", "e", "(", "s", ")", " ", "h", "a", "d", " ", "e", "r", "r",
            "o", "r", "s">>)>>
    \o ErrorLines(errs)
    \o <<Logged("info", <<"F", "i", "x", " ", "t", "h", "e", " ", "e", "r", "r", "o", "r", "s",
                          " ", "a", "b", "o", "v", "e", " ", "a", "n", "d", " ", "c", "o", "m",
                          "m", "i", "t", " ", "a", "g", "a", "i", "n", ".">>),
         Logged("warning", <<"T", "h", "e", " ", "d", "e", "p", "l", "o", "y", "m", "e", "n",
                             "t", " ", "h", "a", "s", " ", "b", "e", "e", "n", " ", "b", "l",
                             "o", "c", "k", "e", "d", " ", "t", "o", " ", "p", "r", "e", "v",
                             "e", "n", "t", " ", "b", "r", "o", "k", "e", "n", " ", "c", "o",
                             "n", "t", "e", "n", "t", ".">>)>>

ResultsGenerator_print_summary(count) ==
    <<Logged("header", <<CheckMark>> \o <<" ", "S", "u", "c", "c", "e", "s", "s", "f", "u",
                                          "l", "l", "y", " ", "g", "e", "n", "e", "r", "a",
                                          "t", "e", "d", " ">> \o IntToStr(count)
                       \o <<" ", "r", "e", "s", "u", "l", "t", " ", "p", "o", "s", "t", "(",
                            "s", ")">>),
      Logged("info", <<"P", "o", "s", "t", "s", ":", " ", "_", "p", "o", "s", "t", "s", "/",
                       "r", "e", "s", "u", "l", "t", "s", "/", " ", "(", "g", "i", "t", "i",
                       "g", "n", "o", "r", "e", "d", ")">>),
      Logged("info", <<"R", "e", "s", "u", "l", "t", "s", " ", "a", "p", "p", "e", "a", "r",
                       " ", "o", "n", " ", "h", "o", "m", "e", "p", "a", "g", "e", " ", "a",
                       "n", "d", " ", "/", "n", "e", "w", "s", "/", " ", "f", "e", "e", "d">>)>>

(***************************************************************************)
(* The files the model's runs are given                                    *)
(***************************************************************************)
\* the most CSV files _fencing-results/ holds
MaxFiles == 2

\* the stem of the i-th file of _fencing-results/
Stems == <<<<"t", "e", "s", "t", "-", "t", "o", "u", "r", "n", "a", "m", "e", "n", "t">>, <<
        "o", "p", "e", "n", "-", "2", "0", "2", "5">>, <<"a", "-", "b">>, <<"x">>>>

SmallSize == 64

CsvFile(size, fault, rows) == [size |-> size, fault |-> fault, rows |-> rows]

ValidRows ==
    <<<<<<BOM>> \o <<"P", "l", "a", "c", "e">>, <<"N", "a", "m", "e">>, <<"C", "l", "u", "b">>>>,
      <<<<"1">>, <<"A", "n", "n", " ", "L", "e", "e">>, <<"T", "C", "F", "C">>>>,
      <<<<"2">>, <<"B", "o">>, <<>>>>>>

\* data rows 1 and 3 do not have the header's 3 cells
MismatchedRows ==
    <<<<<<"P", "l", "a", "c", "e">>, <<"N", "a", "m", "e">>, <<"C", "l", "u", "b">>>>,
      <<<<"1">>, <<"A", "n", "n", " ", "L", "e", "e">>>>,
      <<<<"2">>, <<"B", "o">>, <<"T", "C", "F", "C">>>>,
      <<<<"3">>, <<"C", "y">>, <<"M", "F", "C">>, <<"x">>>>>>

CsvFiles ==
    {CsvFile(0, "none", <<>>),
     CsvFile(SmallSize, "none", ValidRows),
     CsvFile(SmallSize, "none", MismatchedRows),
     CsvFile(CsvReader_MAX_SIZE_MB * BytesPerMB, "none", ValidRows),
     CsvFile(CsvReader_MAX_SIZE_MB * BytesPerMB + 1, "none", MismatchedRows),
     CsvFile(SmallSize, "csv", <<>>),
     CsvFile(SmallSize, "stat", <<>>)}

NoMdFile == [exists |-> FALSE, decodable |-> TRUE, content |-> <<>>]

MdFile(content) == [exists |-> TRUE, decodable |-> TRUE, content |-> content]

FullMd ==
    MdFile(<<"-", "-", "-", "\n", "l", "a", "y", "o", "u", "t", ":", " ", "p", "a", "g", "e",
             "\n", "t", "i", "t", "l", "e", ":", " ", "\"", "S", "t", "a", "t", "e", ":", " ",
             "F", "i", "n", "a", "l", "s", "\"", "\n", "d", "a", "t", "e", ":", " ", "2", "0",
             "2", "5", "-", "0", "3", "-", "1", "5", "\n", "a", "u", "t", "h", "o", "r", ":",
             " ", "M", "N", "H", "S", "F", "L", "\n", "-", "-", "-", "\n">>)

BadDateMd == MdFile(<<"-", "-", "-", "\n", "d", "a", "t", "e", ":", " ", "2", "0", "2", "5",
                      "-", "1", "3", "-", "4", "5", "\n", "-", "-", "-", "\n">>)

MdFiles ==
    {NoMdFile,
     FullMd,
     MdFile(<<"-", "-", "-", "\n", "d", "a", "t", "e", ":", " ", "\"", "2", "0", "2", "5", "-",
              "1", "2", "-", "2", "0", " ", "1", "4", ":", "3", "0", ":", "0", "0", "\"", "\n",
              "-", "-", "-", "\n", "G", "r", "e", "a", "t", " ", "d", "a", "y", ".", "\n",
              "\n", "T", "h", "a", "n", "k", "s", " ", "a", "l", "l", ".", "\n">>),
     BadDateMd,
     MdFile(<<"-", "-", "-", "\n", "d", "a", "t", "e", ":", " ", "2", "0", "2", "5", "-", "3",
              "-", "5", "\n", "-", "-", "-", "\n">>),
     MdFile(<<"-", "-", "-", "\n", "d", "a", "t", "e", ":", " ", "M", "a", "r", "c", "h", " ",
              "1", "5", "\n", "-", "-", "-", "\n", "S", "o", "o", "n", ".", "\n">>)}

\* what datetime.now().strftime('%Y-%m-%d') returns during the run
Todays == {<<"2", "0", "2", "6", "-", "1", "1", "-", "0", "6">>}

\* a CSV file and the .md file beside it: every .md file beside the valid
\* table, no .md file or the one with the bad date beside every CSV file, and
\* the one with all the keys beside every CSV file that can be opened
Tournaments ==
    {t \in CsvFiles \X MdFiles :
        \/ t[1] = CsvFile(SmallSize, "none", ValidRows)
        \/ t[2] \in {NoMdFile, BadDateMd}
        \/ t[1].fault = "none" /\ t[2] = FullMd}

\* the listings of _fencing-results/ with n files
Listings(n) ==
    {[i \in 1..n |-> [stem |-> Stems[i], csv |-> f[i][1], md |-> f[i][2]]] :
        f \in [1..n -> Tournaments]}

(***************************************************************************)
(* ResultsGenerator.run                                                    *)
(***************************************************************************)
VARIABLES
    source_dir,     \* _fencing-results/: whether it exists, its *.csv files in glob order
    posts_dir,      \* _posts/results/: whether it exists, its files (name -> content)
    now,            \* the current date, as datetime.now().strftime('%Y-%m-%d') gives it
    pc,             \* where run() is
    csv_files,      \* run's csv_files
    next_file,      \* the index in csv_files of the next file _collect_tournament_errors takes
    errors,         \* the list _collect_tournament_errors has built so far
    log,            \* the console output
    exit_code,      \* <<>> while the process runs, <<status>> once it has ended
    call,           \* a call of one function on its own: the function and its arguments
    ret             \* <<>> until that call has returned, then <<what it returned>>

run_vars == <<source_dir, posts_dir, now, pc, csv_files, next_file, errors, log, exit_code>>

call_vars == <<call, ret>>

vars == <<run_vars, call_vars>>

NoFiles == [f \in {} |-> <<>>]

Init ==
    /\ source_dir \in
           {[exists |-> FALSE, files |-> <<>>]}
           \cup {[exists |-> TRUE, files |-> fs] :
                    fs \in UNION {Listings(n) : n \in 0..MaxFiles}}
    /\ posts_dir \in {[exists |-> e, files |-> NoFiles] : e \in BOOLEAN}
    /\ now \in Todays
    /\ pc = "run"
    /\ csv_files = <<>>
    /\ next_file = 1
    /\ errors = <<>>
    /\ log = <<>>
    /\ exit_code = <<>>
    /\ call = <<>>
    /\ ret = <<>>

ResultsGenerator_ensure_output_dirs ==
    [dir |-> [posts_dir EXCEPT !.exists = TRUE],
     log |-> <<Logged("success", <<"O", "u", "t", "p", "u", "t", " ", "d", "i", "r", "e", "c",
                                   "t", "o", "r", "y", " ", "r", "e", "a", "d", "y", ":", " ",
                                   "_", "p", "o", "s", "t", "s", "/", "r", "e", "s", "u", "l",
                                   "t", "s">>)>>]

ResultsGenerator_find_csv_files ==
    IF ~source_dir.exists THEN [val |-> <<>>, log |-> <<>>]
    ELSE [val |-> source_dir.files,
          log |-> <<Logged("success", <<"F", "o", "u", "n", "d", " ">> \o IntToStr(Len(source_dir.files))
                                      \o <<" ", "C", "S", "V", " ", "f", "i", "l", "e", "(",
                                              "s", ")">>)>>]

\* run, up to the call of _process_csv_files
Run ==
    /\ pc = "run"
    /\ posts_dir' = ResultsGenerator_ensure_output_dirs.dir
    /\ csv_files' = ResultsGenerator_find_csv_files.val
    /\ log' = log
              \o <<Logged("header", <<"M", "N", "H", "S", "F", "L", " ", "F", "e", "n", "c",
                                      "i", "n", "g", " ", "R", "e", "s", "u", "l", "t", "s",
                                      " ", "G", "e", "n", "e", "r", "a", "t", "o", "r">>)>>
              \o ResultsGenerator_ensure_output_dirs.log
              \o ResultsGenerator_find_csv_files.log
    /\ pc' = "process_csv_files"
    /\ UNCHANGED <<source_dir, now, next_file, errors, exit_code, call_vars>>

\* _process_csv_files with no file ending the run with status 1
NoCsvFiles_fails ==
    /\ pc = "process_csv_files"
    /\ csv_files = <<>>
    /\ log' = Append(log, Logged("warning", <<"N", "o", " ", "C", "S", "V", " ", "f", "i", "l",
            "e", "s", " ", "f", "o", "u", "n", "d", ".", " ", "N", "o", "t", "h", "i", "n",
            "g", " ", "t", "o", " ", "g", "e", "n", "e", "r", "a", "t", "e", ".">>))
    /\ pc' = "exited"
    /\ exit_code' = <<1>>
    /\ UNCHANGED <<source_dir, posts_dir, now, csv_files, next_file, errors, call_vars>>

\* _process_csv_files with no file: warn and return
NoCsvFiles ==
    /\ pc = "process_csv_files"
    /\ csv_files = <<>>
    /\ log' = Append(log, Logged("warning", <<"N", "o", " ", "C", "S", "V", " ", "f", "i", "l",
            "e", "s", " ", "f", "o", "u", "n", "d", ".", " ", "N", "o", "t", "h", "i", "n",
            "g", " ", "t", "o", " ", "g", "e", "n", "e", "r", "a", "t", "e", ".">>))
    /\ pc' = "returned"
    /\ exit_code' = <<0>>
    /\ UNCHANGED <<source_dir, posts_dir, now, csv_files, next_file, errors, call_vars>>

\* _collect_tournament_errors giving up at the first failure
TryProcessTournament_stops_at_failure ==
    /\ pc = "process_csv_files"
    /\ next_file <= Len(csv_files)
    /\ \E tried \in {ResultsGenerator_try_process_tournament(
                          csv_files[next_file], now, posts_dir.files)} :
           /\ errors' = errors \o tried.error
           /\ log' = log \o tried.log
           /\ posts_dir' = [posts_dir EXCEPT !.files = tried.files]
           /\ next_file' = IF tried.error # <<>> THEN Len(csv_files) + 1 ELSE next_file + 1
    /\ UNCHANGED <<source_dir, now, pc, csv_files, exit_code, call_vars>>

\* one iteration of the comprehension of _collect_tournament_errors
TryProcessTournament ==
    /\ pc = "process_csv_files"
    /\ next_file <= Len(csv_files)
    /\ \E tried \in {ResultsGenerator_try_process_tournament(
                          csv_files[next_file], now, posts_dir.files)} :
           /\ errors' = errors \o tried.error
           /\ log' = log \o tried.log
           /\ posts_dir' = [posts_dir EXCEPT !.files = tried.files]
    /\ next_file' = next_file + 1
    /\ UNCHANGED <<source_dir, now, pc, csv_files, exit_code, call_vars>>

\* _process_all_tournaments printing the errors without raising SystemExit
FailBatch_returns ==
    /\ pc = "process_csv_files"
    /\ csv_files # <<>>
    /\ next_file > Len(csv_files)
    /\ errors # <<>>
    /\ log' = log \o ResultsGenerator_print_error_summary(errors)
                  \o ResultsGenerator_print_summary(Len(csv_files))
    /\ pc' = "returned"
    /\ exit_code' = <<0>>
    /\ UNCHANGED <<source_dir, posts_dir, now, csv_files, next_file, errors, call_vars>>

\* _process_all_tournaments with errors: print them and raise SystemExit(1)
FailBatch ==
    /\ pc = "process_csv_files"
    /\ csv_files # <<>>
    /\ next_file > Len(csv_files)
    /\ errors # <<>>
    /\ log' = log \o ResultsGenerator_print_error_summary(errors)
    /\ pc' = "exited"
    /\ exit_code' = <<1>>
    /\ UNCHANGED <<source_dir, posts_dir, now, csv_files, next_file, errors, call_vars>>

\* _process_all_tournaments without errors, then _print_summary and return
PrintSummary ==
    /\ pc = "process_csv_files"
    /\ csv_files # <<>>
    /\ next_file > Len(csv_files)
    /\ errors = <<>>
    /\ log' = log \o ResultsGenerator_print_summary(Len(csv_files))
    /\ pc' = "returned"
    /\ exit_code' = <<0>>
    /\ UNCHANGED <<source_dir, posts_dir, now, csv_files, next_file, errors, call_vars>>

Next ==
    \/ Run
    \/ NoCsvFiles
    \/ TryProcessTournament
    \/ FailBatch
    \/ PrintSummary

Spec == Init /\ [][Next]_vars

(***************************************************************************)
(* DateExtractor.extract on its own, over frontmatters with and without a  *)
(* date, followed by OutputFilenameGenerator.generate on the file date     *)
(***************************************************************************)
\* no run of the generator: the state of its variables in the single calls
NoRun ==
    /\ source_dir = [exists |-> FALSE, files |-> <<>>]
    /\ posts_dir = [exists |-> FALSE, files |-> NoFiles]
    /\ now = <<>>
    /\ pc = "call"
    /\ csv_files = <<>>
    /\ next_file = 1
    /\ errors = <<>>
    /\ log = <<>>
    /\ exit_code = <<>>

DateYears == {<<"2", "0", "2", "5">>, <<"2", "0", "2", "4">>, <<"0", "0", "0", "0">>, <<"2",
        "5">>}

DateMonths == {<<"0", "3">>, <<"3">>, <<"0", "2">>, <<"1", "2">>, <<"1", "3">>, <<"0", "0">>}

DateDays == {<<"0", "5">>, <<"5">>, <<"2", "9">>, <<"3", "0">>, <<"3", "1">>, <<"4", "5">>, <<
        "0">>}

DateTails ==
    {<<>>, <<" ", "1", "4", ":", "3", "0", ":", "0", "0">>, <<"T", "1", "4", ":", "3", "0",
            ":", "0", "0">>, <<"T", "1", "4", ":", "3", "0", ":", "0", "0", " ", "U", "T", "C">>, <<
            " ", "1", "4", ":", "3", "0", ":", "0", "0", " ", "T">>, <<"T">>, <<"Z">>}

DateValues ==
    {y \o <<"-">> \o m \o <<"-">> \o d \o t :
        y \in DateYears, m \in DateMonths, d \in DateDays, t \in DateTails}
    \cup {<<>>, <<"T">>, <<"M", "a", "r", "c", "h", " ", "1", "5">>, <<"2", "0", "2", "5", "/",
            "0", "3", "/", "1", "5">>, <<"2", "0", "2", "5", "-", "0", "3">>, <<"2", "0", "2",
            "5", "-", "0", "3", "-", "1", "5", "-">>}

DateFrontmatters ==
    {<<>>, <<<<<<"t", "i", "t", "l", "e">>, <<"F", "a", "l", "l", " ", "O", "p", "e", "n">>>>>>}
    \cup {<<<<<<"d", "a", "t", "e">>, v>>>> : v \in DateValues}
    \cup {<<<<<<"t", "i", "t", "l", "e">>, <<"T">>>>, <<<<"d", "a", "t", "e">>, v>>>> : v \in DateValues}

\* what datetime.now().strftime('%Y-%m-%d') returns at the call
DateTodays == {<<"2", "0", "2", "6", "-", "1", "1", "-", "0", "6">>, <<"2", "0", "2", "4", "-",
        "0", "2", "-", "2", "9">>}

InitDate ==
    /\ NoRun
    /\ call \in {[fn |-> "DateExtractor.extract", frontmatter |-> fm,
                  now |-> t, stem |-> Stems[1]] :
                    fm \in DateFrontmatters, t \in DateTodays}
    /\ ret = <<>>

Extract ==
    /\ call.fn = "DateExtractor.extract"
    /\ ret = <<>>
    /\ \E date \in {DateExtractor_extract(call.frontmatter, call.now)} :
           ret' = <<IF ~date.ok THEN date
                    ELSE [ok |-> TRUE,
                          date_str |-> date.val[1],
                          file_date |-> date.val[2],
                          filename |-> OutputFilenameGenerator_generate(
                                           date.val[2], call.stem)]>>
    /\ UNCHANGED <<run_vars, call>>

NextDate == Extract

SpecDate == InitDate /\ [][NextDate]_vars

(***************************************************************************)
(* FrontmatterBuilder.build on its own, over user maps and defaults        *)
(***************************************************************************)
\* the most keys a user map has
MaxUserKeys == 3

UserKeys == {<<"l", "a", "y", "o", "u", "t">>, <<"t", "i", "t", "l", "e">>, <<"d", "a", "t",
        "e">>, <<"a", "u", "t", "h", "o", "r">>, <<"t", "a", "g", "s">>}

\* values: bare, with a space and a colon, with a colon alone, with quote characters
UserValues == {<<"p", "a", "g", "e">>, <<"F", "a", "l", "l", " ", "O", "p", "e", "n", ":", " ",
                                         "B">>, <<"a", ":", "b">>, <<"A", "n", "n", "'", "s",
        " ", "\"", "A", "\"">>}

\* the dicts with n keys
UserMaps(n) ==
    {d \in [1..n -> UserKeys \X UserValues] :
        \A i, j \in 1..n : i # j => d[i][1] # d[j][1]}

DefaultMaps ==
    {<<<<<<"l", "a", "y", "o", "u", "t">>, DefaultLayout>>, <<<<"t", "i", "t", "l", "e">>, t>>, <<<<
            "d", "a", "t", "e">>, d>>>> :
        t \in {<<"O", "p", "e", "n", " ", "2", "0", "2", "5">>}, d \in {<<"2", "0", "2", "6",
                "-", "1", "1", "-", "0", "6">>, <<"2", "0", "2", "5", "-", "1", "2", "-", "2",
                "0", " ", "1", "4", ":", "3", "0", ":", "0", "0">>}}

InitBuild ==
    /\ NoRun
    /\ call \in {[fn |-> "FrontmatterBuilder.build", user_data |-> u, defaults |-> d] :
                    u \in UNION {UserMaps(n) : n \in 0..MaxUserKeys}, d \in DefaultMaps}
    /\ ret = <<>>

Build ==
    /\ call.fn = "FrontmatterBuilder.build"
    /\ ret = <<>>
    /\ ret' = <<[merged |-> FrontmatterBuilder_merge_frontmatter(
                                call.user_data, call.defaults),
                 text |-> FrontmatterBuilder_build(call.user_data, call.defaults)]>>
    /\ UNCHANGED <<run_vars, call>>

NextBuild == Build

SpecBuild == InitBuild /\ [][NextBuild]_vars

(***************************************************************************)
(* Properties.  What they need beyond the program: when a run has ended,   *)
(* what a tournament does processed on its own into an empty posts_dir,    *)
(* which files of posts_dir are a tournament's, and the strict date form.  *)
(***************************************************************************)
Done == pc \in {"returned", "exited"}

\* the tournaments _collect_tournament_errors has taken
Attempted == {csv_files[i] : i \in 1..(next_file - 1)}

\* how often the log says "Processing: <name>"
Attempts(csv_path) ==
    Cardinality({k \in 1..Len(log) :
        log[k] = Logged("processing", <<"\n", "P", "r", "o", "c", "e", "s", "s", "i", "n", "g",
                                        ":", " ">> \o PathName(csv_path))})

\* the tournament processed on its own, posts_dir empty
Alone(csv_path) == ResultsGenerator_process_tournament(csv_path, now, NoFiles)

EndsWith(s, p) == Len(s) >= Len(p) /\ SubSeq(s, Len(s) - Len(p) + 1, Len(s)) = p

\* the files of posts_dir named <something>-<stem>.md
OutputsOf(csv_path) ==
    {f \in DOMAIN posts_dir.files : EndsWith(f, <<"-">> \o csv_path.stem \o <<".", "m", "d">>)}

\* the errors recorded under the tournament's name
ErrorsOf(csv_path) == {k \in 1..Len(errors) : errors[k][1] = PathName(csv_path)}

\* YYYY-MM-DD: four digits, two digits, two digits, a date of the calendar
IsStrictDate(s) ==
    /\ Len(s) = 10
    /\ \A i \in {1, 2, 3, 4, 6, 7, 9, 10} : IsDigit(s[i])
    /\ s[5] = "-" /\ s[8] = "-"
    /\ ToInt(s, 1, 4) >= 1
    /\ ToInt(s, 6, 7) \in 1..12
    /\ ToInt(s, 9, 10) \in 1..DaysInMonth(ToInt(s, 1, 4), ToInt(s, 6, 7))

\* the lines of log that name the tournament as a validation error
ValidationErrorLines(csv_path) ==
    {k \in 1..Len(log) :
        log[k] = Logged("error", <<"V", "A", "L", "I", "D", "A", "T", "I", "O", "N", " ", "E",
                                   "R", "R", "O", "R", " ", "i", "n", " ">> \o PathName(csv_path))}

\* C1: in one batch run every discovered unit is attempted exactly once,
\* whatever happened to the units before it: the units taken so far have
\* been attempted once and the others not yet; when the run has ended all
\* have been taken, and every unit that is valid on its own has its output
\* document, as it is when processed on its own, in the output directory.
C1_EveryUnitAttemptedOnce ==
    /\ \A i \in 1..Len(csv_files) :
           Attempts(csv_files[i]) = IF i < next_file THEN 1 ELSE 0
    /\ Done =>
           /\ next_file = Len(csv_files) + 1
           /\ \A i \in 1..Len(csv_files) : \A alone \in {Alone(csv_files[i])} :
                  alone.ok =>
                      /\ DOMAIN alone.files # {}
                      /\ \A f \in DOMAIN alone.files :
                             /\ f \in DOMAIN posts_dir.files
                             /\ posts_dir.files[f] = alone.files[f]

\* C1 witness: a run of two units has ended, the first unit failed and the
\* second, valid on its own, has written its document
C1_Witness ==
    /\ Done
    /\ Len(csv_files) = 2
    /\ ErrorsOf(csv_files[1]) # {}
    /\ Alone(csv_files[2]).ok
    /\ OutputsOf(csv_files[2]) # {}

\* the failures of the units, in processing order: (name, message) of each
\* unit that fails on its own
RECURSIVE FailuresOf(_)
FailuresOf(files) ==
    IF files = <<>> THEN <<>>
    ELSE (IF Alone(Head(files)).ok THEN <<>>
          ELSE <<<<PathName(Head(files)), Alone(Head(files)).msg>>>>)
         \o FailuresOf(Tail(files))

SummaryLine(count) ==
    Logged("header", <<CheckMark>> \o <<" ", "S", "u", "c", "c", "e", "s", "s", "f", "u", "l",
                                        "l", "y", " ", "g", "e", "n", "e", "r", "a", "t", "e",
                                        "d", " ">> \o IntToStr(count)
                     \o <<" ", "r", "e", "s", "u", "l", "t", " ", "p", "o", "s", "t", "(", "s",
                          ")">>)

\* C2: after all units have been attempted the recorded failure list holds
\* exactly one (unit name, error message) pair for each unit that failed, in
\* processing order, and no pair for a unit that wrote its output; the run
\* ends with exit status 1 if and only if the list is non-empty, and
\* otherwise ends normally, with units reporting a count equal to their
\* number, all of which have written output.
C2_BatchOutcomeExact ==
    Done =>
        /\ errors = FailuresOf(csv_files)
        /\ \A i \in 1..Len(csv_files) :
               /\ Cardinality(ErrorsOf(csv_files[i])) <= 1
               /\ ErrorsOf(csv_files[i]) # {} <=> OutputsOf(csv_files[i]) = {}
        /\ exit_code = <<1>> <=> errors # <<>>
        /\ pc = "exited" <=> errors # <<>>
        /\ errors = <<>> => exit_code = <<0>>
        /\ (errors = <<>> /\ csv_files # <<>>) =>
               /\ \E k \in 1..Len(log) : log[k] = SummaryLine(Len(csv_files))
               /\ \A i \in 1..Len(csv_files) : OutputsOf(csv_files[i]) # {}

\* C2 witness: a run of two units has ended with status 1, the first unit
\* wrote its output and the second is the one recorded failure
C2_Witness ==
    /\ pc = "exited"
    /\ Len(csv_files) = 2
    /\ Len(errors) = 1
    /\ errors[1][1] = PathName(csv_files[2])
    /\ OutputsOf(csv_files[1]) # {}

\* the step records a failure that the log reports as a validation error
ValidationFailureStep ==
    /\ Len(errors') = Len(errors) + 1
    /\ \E k \in (Len(log) + 1)..Len(log') :
           log'[k] = Logged("error", <<"V", "A", "L", "I", "D", "A", "T", "I", "O", "N", " ",
                                       "E", "R", "R", "O", "R", " ", "i", "n", " ">> \o errors'[Len(errors')][1])

\* C3: a unit that fails validation writes nothing: every step in which a
\* unit's pipeline raises a validation error leaves the set and the contents
\* of the files in the output directory as they were before the unit.
C3_ValidationFailureWritesNothing ==
    [][ValidationFailureStep => posts_dir'.files = posts_dir.files]_vars

\* C3 witness: a unit with a mismatched table has failed validation after
\* another unit wrote its document, and the directory holds that one document
C3_Witness ==
    /\ next_file = 3
    /\ csv_files[2].csv.rows = MismatchedRows
    /\ ValidationErrorLines(csv_files[2]) # {}
    /\ Cardinality(DOMAIN posts_dir.files) = 1
    /\ OutputsOf(csv_files[1]) # {}

\* the 1-based indices of the data rows whose cell count is not the header's
OffendingRows(rows) == {k \in 1..(Len(rows) - 1) : Len(rows[k + 1]) # Len(rows[1])}

\* the elements of a set of numbers, ascending
RECURSIVE Ascending(_)
Ascending(ns) ==
    IF ns = {} THEN <<>>
    ELSE <<CHOOSE n \in ns : \A m \in ns : n <= m>>
         \o Ascending(ns \ {CHOOSE n \in ns : \A m \in ns : n <= m})

\* the table of the tournament was read and has a header row
HasHeader(csv_path) ==
    CsvReader_read(csv_path.csv).ok /\ CsvReader_read(csv_path.csv).val # <<>>

\* C4: table shape validation fails loudly and completely: a unit whose table
\* has a header row and a data row of another cell count fails, with a single
\* error and no output, and where the unit's date resolved, so that the table
\* was validated, that error lists the 1-based index of every offending data
\* row and the expected column count; if no data row differs, the validation
\* reports no error and the unit writes its output.
C4_ShapeValidationComplete ==
    \A csv_path \in Attempted :
        HasHeader(csv_path) =>
            \A rows \in {csv_path.csv.rows} :
            \A validated \in {ResultsGenerator_read_tournament_data(csv_path, now).ok} :
                /\ OffendingRows(rows) # {} =>
                       /\ Cardinality(ErrorsOf(csv_path)) = 1
                       /\ OutputsOf(csv_path) = {}
                       /\ validated =>
                              \A k \in ErrorsOf(csv_path) :
                                  StartsWith(errors[k][2],
                                      <<"I", "n", "c", "o", "n", "s", "i", "s", "t", "e", "n",
                                        "t", " ", "c", "o", "l", "u", "m", "n", " ", "c", "o",
                                        "u", "n", "t", " ", "i", "n", " ", "r", "o", "w", "s",
                                        ":", " ">>
                                      \o ListToStr(Ascending(OffendingRows(rows)))
                                      \o <<"\n", "\t", "E", "x", "p", "e", "c", "t", "e", "d",
                                              " ">> \o IntToStr(Len(rows[1]))
                                      \o <<" ", "c", "o", "l", "u", "m", "n", "(", "s", ")">>)
                /\ (OffendingRows(rows) = {} /\ validated) =>
                       /\ ErrorsOf(csv_path) = {}
                       /\ OutputsOf(csv_path) # {}

\* C4 witness: a unit whose table has two offending data rows, the first and
\* the third, was validated and its error is recorded
C4_Witness ==
    \E csv_path \in Attempted :
        /\ HasHeader(csv_path)
        /\ OffendingRows(csv_path.csv.rows) = {1, 3}
        /\ ResultsGenerator_read_tournament_data(csv_path, now).ok
        /\ ErrorsOf(csv_path) # {}

\* the lines of a text
Lines(text) == SplitAll(text, <<"\n">>)

\* how many entries of the map have the key
Occurrences(d, key) == Cardinality({i \in 1..Len(d) : d[i][1] = key})

\* C5: the layout key of the merged metadata always has the value from the
\* defaults map: for every user map, with or without a layout key and
\* whatever its value, the merged map has one layout entry, with the default
\* value, and the serialized header has exactly one layout line, which
\* carries the fixed default.
C5_LayoutAlwaysDefault ==
    (ret # <<>> /\ call.fn = "FrontmatterBuilder.build") =>
        /\ Occurrences(ret[1].merged, <<"l", "a", "y", "o", "u", "t">>) = 1
        /\ DictGet(ret[1].merged, <<"l", "a", "y", "o", "u", "t">>) = DictGet(call.defaults, <<
                "l", "a", "y", "o", "u", "t">>)
        /\ DictGet(ret[1].merged, <<"l", "a", "y", "o", "u", "t">>) = DefaultLayout
        /\ \E lines \in {Lines(ret[1].text)} :
               /\ Cardinality({i \in 1..Len(lines) : StartsWith(lines[i], <<"l", "a", "y", "o",
                       "u", "t", ":">>)}) = 1
               /\ \E i \in 1..Len(lines) : lines[i] = <<"l", "a", "y", "o", "u", "t", ":", " ">> \o DefaultLayout

\* C5 witness: the header of a user map whose layout is not the default has
\* been built
C5_Witness ==
    /\ ret # <<>>
    /\ call.fn = "FrontmatterBuilder.build"
    /\ DictHas(call.user_data, <<"l", "a", "y", "o", "u", "t">>)
    /\ DictGet(call.user_data, <<"l", "a", "y", "o", "u", "t">>) # DefaultLayout

\* the keys of the map that are not layout, title or date, in the map's order
CustomKeys(d) == SelectSeq(DictKeys(d), LAMBDA k : k \notin ReservedKeys)

\* C6: metadata merge precedence and order: the merged map has title and
\* date equal to the user's value when the user map contains that key and to
\* the default otherwise; every other user key appears with the user's
\* value; and the entries are ordered layout, title, date first, followed by
\* the non-reserved user keys in the order they appear in the user map.
C6_MergePrecedenceAndOrder ==
    (ret # <<>> /\ call.fn = "FrontmatterBuilder.build") =>
        /\ DictKeys(ret[1].merged)
               = <<<<"l", "a", "y", "o", "u", "t">>, <<"t", "i", "t", "l", "e">>, <<"d", "a",
                       "t", "e">>>> \o CustomKeys(call.user_data)
        /\ \A key \in {<<"t", "i", "t", "l", "e">>, <<"d", "a", "t", "e">>} :
               DictGet(ret[1].merged, key)
                   = IF DictHas(call.user_data, key) THEN DictGet(call.user_data, key)
                     ELSE DictGet(call.defaults, key)
        /\ \A i \in 1..Len(call.user_data) :
               call.user_data[i][1] \notin ReservedKeys =>
                   DictGet(ret[1].merged, call.user_data[i][1]) = call.user_data[i][2]

\* C6 witness: a user map with a title other than the default's and two
\* non-reserved keys, tags before author, has been merged
C6_Witness ==
    /\ ret # <<>>
    /\ call.fn = "FrontmatterBuilder.build"
    /\ DictHas(call.user_data, <<"t", "i", "t", "l", "e">>)
    /\ DictGet(call.user_data, <<"t", "i", "t", "l", "e">>) # DictGet(call.defaults, <<"t",
            "i", "t", "l", "e">>)
    /\ CustomKeys(call.user_data) = <<<<"t", "a", "g", "s">>, <<"a", "u", "t", "h", "o", "r">>>>

\* the date value of the call of DateExtractor.extract
DateValue == DictGet(call.frontmatter, <<"d", "a", "t", "e">>)

\* the value holds a space or a T
IsDateTime(v) == HasChar(v, " ") \/ HasChar(v, "T")

\* the substring of v before the first space or T in it
RECURSIVE BeforeSeparator(_)
BeforeSeparator(v) ==
    IF v = <<>> \/ Head(v) \in {" ", "T"} THEN <<>>
    ELSE <<Head(v)>> \o BeforeSeparator(Tail(v))

\* C7: for every date value that contains a space or a literal T,
\* DateResolver returns the value unmodified as the header date and, as the
\* filename date, the substring before the first occurrence of a space or T
\* in the value; the unit is accepted exactly when that substring is a
\* strict YYYY-MM-DD calendar date, including when the value contains both a
\* T and a later space.
C7_DateTimeSplitAtFirstSeparator ==
    (/\ ret # <<>>
     /\ call.fn = "DateExtractor.extract"
     /\ DictHas(call.frontmatter, <<"d", "a", "t", "e">>)
     /\ IsDateTime(DateValue)) =>
        /\ ret[1].ok <=> IsStrictDate(BeforeSeparator(DateValue))
        /\ ret[1].ok =>
               /\ ret[1].date_str = DateValue
               /\ ret[1].file_date = BeforeSeparator(DateValue)

\* C8: resolved-date invariant: for every unit that produces an output
\* document, the filename date, what precedes -<stem>.md in the document's
\* name, is a bare calendar date of the exact form YYYY-MM-DD, whatever date
\* value the user supplied.
C8_FilenameDateIsStrict ==
    \A csv_path \in Attempted : \A f \in OutputsOf(csv_path) :
        IsStrictDate(SubSeq(f, 1, Len(f) - Len(csv_path.stem) - 4))

\* the table source is valid: within the size limit, readable, and every data
\* row as wide as the header
ValidTableSource(csv_file) ==
    /\ csv_file.fault = "none"
    /\ csv_file.size <= CsvReader_MAX_SIZE_MB * BytesPerMB
    /\ \A k \in 2..Len(csv_file.rows) : Len(csv_file.rows[k]) = Len(csv_file.rows[1])

\* t is the stem with its hyphens replaced by spaces, title-cased: a letter
\* is upper case where it begins a run of letters and lower case elsewhere
IsTitleOf(t, stem) ==
    /\ Len(t) = Len(stem)
    /\ \A i \in 1..Len(stem) :
           t[i] = IF stem[i] = "-" THEN " "
                  ELSE IF ~IsCased(stem[i]) THEN stem[i]
                  ELSE IF i = 1 \/ ~IsCased(stem[i - 1]) THEN ToUpper(stem[i])
                  ELSE ToLower(stem[i])

\* the header line gives the key the value, bare or in double quotes
IsEntry(line, key, value) ==
    \/ line = key \o <<":", " ">> \o value
    \/ line = key \o <<":", " ", "\"">> \o value \o <<"\"">>

\* C9: defaults without metadata: for every valid table source that has no
\* companion metadata source, the output header contains layout with the
\* fixed default, a title derived from the input file stem (hyphens replaced
\* by spaces, title-cased), and date equal to the current date in YYYY-MM-DD
\* form, and the output filename starts with that same current date.
C9_DefaultsWithoutMetadata ==
    \A csv_path \in Attempted :
        (~csv_path.md.exists /\ ValidTableSource(csv_path.csv)) =>
            /\ IsStrictDate(now)
            /\ OutputsOf(csv_path) = {now \o <<"-">> \o csv_path.stem \o <<".", "m", "d">>}
            /\ \A f \in OutputsOf(csv_path) : \A header \in {Lines(posts_dir.files[f])} :
                   /\ Len(header) >= 5
                   /\ header[1] = <<"-", "-", "-">>
                   /\ header[2] = <<"l", "a", "y", "o", "u", "t", ":", " ", "p", "o", "s", "t">>
                   /\ \E t \in {SubSeq(header[3], 9, Len(header[3]) - 1),
                                SubSeq(header[3], 8, Len(header[3]))} :
                          IsTitleOf(t, csv_path.stem) /\ IsEntry(header[3], <<"t", "i", "t",
                                  "l", "e">>, t)
                   /\ header[4] = <<"d", "a", "t", "e", ":", " ">> \o now
                   /\ header[5] = <<"-", "-", "-">>

\* C9 witness: a unit with a table of two data rows and no .md file has been
\* processed
C9_Witness ==
    \E csv_path \in Attempted :
        /\ ~csv_path.md.exists
        /\ csv_path.csv = CsvFile(SmallSize, "none", ValidRows)
        /\ OutputsOf(csv_path) # {}

\* C10: for every date value that contains neither a space nor a T and is a
\* strict YYYY-MM-DD calendar date, the header date and the filename date
\* are both exactly that value, so the output filename begins with the value
\* followed by a hyphen.
C10_PlainDateKept ==
    (/\ ret # <<>>
     /\ call.fn = "DateExtractor.extract"
     /\ DictHas(call.frontmatter, <<"d", "a", "t", "e">>)
     /\ ~IsDateTime(DateValue)
     /\ IsStrictDate(DateValue)) =>
        /\ ret[1].ok
        /\ ret[1].date_str = DateValue
        /\ ret[1].file_date = DateValue
        /\ StartsWith(ret[1].filename, DateValue \o <<"-">>)

\* C10 witness: the date 2024-02-29 has been resolved
C10_Witness ==
    /\ ret # <<>>
    /\ call.fn = "DateExtractor.extract"
    /\ DictHas(call.frontmatter, <<"d", "a", "t", "e">>)
    /\ DateValue = <<"2", "0", "2", "4", "-", "0", "2", "-", "2", "9">>


(***************************************************************************)
(* Dates that do not parse                                                 *)
(***************************************************************************)
\* p occurs in s
Contains(s, p) == \E i \in 1..(Len(s) - Len(p) + 1) : SubSeq(s, i, i + Len(p) - 1) = p

\* s is a non-empty run of digits
Digits(s) == s # <<>> /\ \A i \in 1..Len(s) : IsDigit(s[i])

\* s splits at "-" into a year of four digits, a month and a day of one or
\* two digits, and they name a day of the calendar
IsCalendarDate(s) ==
    \E parts \in {SplitAll(s, <<"-">>)} :
        /\ Len(parts) = 3
        /\ Len(parts[1]) = 4 /\ Len(parts[2]) \in 1..2 /\ Len(parts[3]) \in 1..2
        /\ \A i \in 1..3 : Digits(parts[i])
        /\ ToInt(parts[1], 1, 4) >= 1
        /\ ToInt(parts[2], 1, Len(parts[2])) \in 1..12
        /\ ToInt(parts[3], 1, Len(parts[3]))
               \in 1..DaysInMonth(ToInt(parts[1], 1, 4), ToInt(parts[2], 1, Len(parts[2])))

\* the metadata map of the tournament's .md file
MetadataOf(csv_path) ==
    IF csv_path.md.exists /\ csv_path.md.decodable
    THEN FrontmatterParser_parse(csv_path.md.content)[1] ELSE <<>>

\* the date parts, one or none, of the tournament's metadata that are not dates
BadDatePartsOf(csv_path) ==
    {part \in {BeforeSeparator(DictGet(fm, <<"d", "a", "t", "e">>)) :
                  fm \in {m \in {MetadataOf(csv_path)} : DictHas(m, <<"d", "a", "t", "e">>)}} :
        ~IsCalendarDate(part)}

\* C11: a date value whose date part is unparsable or not a real calendar
\* date makes the unit fail: it writes no document and records one failure;
\* once the table source has been read, which comes before the date, the
\* failure is a validation error naming the unit's file, whose message holds
\* the offending date string and the expected format; and the failure is
\* confined to the unit: when the run has ended every other unit that is
\* valid on its own has its document.
C11_BadDateFailsUnit ==
    \A csv_path \in Attempted : \A part \in BadDatePartsOf(csv_path) :
        /\ OutputsOf(csv_path) = {}
        /\ Cardinality(ErrorsOf(csv_path)) = 1
        /\ CsvReader_read(csv_path.csv).ok =>
               /\ ValidationErrorLines(csv_path) # {}
               /\ \A k \in ErrorsOf(csv_path) :
                      /\ Contains(errors[k][2], <<"'">> \o part)
                      /\ Contains(errors[k][2], <<"E", "x", "p", "e", "c", "t", "e", "d", " ",
                              "f", "o", "r", "m", "a", "t", ":", " ", "Y", "Y", "Y", "Y", "-",
                              "M", "M", "-", "D", "D">>)
        /\ Done => \A other \in Attempted \ {csv_path} :
               Alone(other).ok => OutputsOf(other) # {}

\* C11 witness: of two units taken, the first has the date 2025-13-45 beside
\* a valid table and failed, the second wrote its document
C11_Witness ==
    /\ next_file = 3
    /\ csv_files[1].md = BadDateMd
    /\ csv_files[1].csv = CsvFile(SmallSize, "none", ValidRows)
    /\ ErrorsOf(csv_files[1]) # {}
    /\ OutputsOf(csv_files[2]) # {}

(***************************************************************************)
(* ResultsGenerator._generate_table on its own, over tables                *)
(***************************************************************************)
\* the most data rows of a table
MaxDataRows == 2

\* header rows: none of the cells, the first or another one marked, a mark
\* inside the first cell
TableHeaders ==
    {<<>>,
     <<<<BOM>> \o <<"P", "l", "a", "c", "e">>>>,
     <<<<BOM>> \o <<"P", "l", "a", "c", "e">>, <<"N", "a", "m", "e">>>>,
     <<<<"P", "l", "a", "c", "e">>, <<"N", "a", "m", "e">>>>,
     <<<<"P", "l">> \o <<BOM>> \o <<"a", "c", "e">>, <<BOM>> \o <<"N", "a", "m", "e">>>>}

TableDataRows ==
    {<<>>,
     <<<<"1">>>>,
     <<<<>>>>,
     <<<<"1">>, <<"A", "n", "n", " ", "L", "e", "e">>>>,
     <<<<BOM>> \o <<"1">>, <<>>>>,
     <<<<>>, <<>>>>,
     <<<<"1">>, <<"A", "n", "n", " ", "L", "e", "e">>, <<"T", "C", "F", "C">>>>}

\* what csv.reader can return: no row, or a header row and n data rows
Tables(n) ==
    IF n = 0 THEN {<<>>} \cup {<<h>> : h \in TableHeaders}
    ELSE {<<h>> \o d : h \in TableHeaders, d \in [1..n -> TableDataRows]}

InitTable ==
    /\ NoRun
    /\ call \in {[fn |-> "ResultsGenerator._generate_table", rows |-> rows] :
                    rows \in UNION {Tables(n) : n \in 0..MaxDataRows}}
    /\ ret = <<>>

GenerateTable ==
    /\ call.fn = "ResultsGenerator._generate_table"
    /\ ret = <<>>
    /\ ret' = <<ResultsGenerator_generate_table(call.rows)>>
    /\ UNCHANGED <<run_vars, call>>

NextTable == GenerateTable

SpecTable == InitTable /\ [][NextTable]_vars

\* the line of a table that holds the cells
RowLine(cells) == <<"|", " ">> \o Join(<<" ", "|", " ">>, cells) \o <<" ", "|">>

\* the header with a mark at the start of its first cell taken off
Unmarked(header) ==
    [i \in 1..Len(header) |->
        IF i = 1 /\ header[1] # <<>> /\ header[1][1] = BOM
        THEN Tail(header[1]) ELSE header[i]]

\* C12: rendering is faithful on the validated path: a table passes shape
\* validation exactly when no data row's cell count differs from the
\* header's, whatever marks its cells carry, and the rendered table of one
\* that passes is a header line, a separator line with one --- cell per
\* header column, and one line per data row in input order, where every
\* cell is exactly the input cell, except that a leading byte-order mark is
\* removed from the first header cell.
C12_RenderingFaithful ==
    (ret # <<>> /\ call.fn = "ResultsGenerator._generate_table" /\ call.rows # <<>>) =>
        /\ ret[1].ok <=> OffendingRows(call.rows) = {}
        /\ ret[1].ok =>
               /\ ret[1].val[Len(ret[1].val)] = "\n"
               /\ SubSeq(Lines(ret[1].val), 1, Len(call.rows) + 1) =
                      [k \in 1..(Len(call.rows) + 1) |->
                          IF k = 1 THEN RowLine(Unmarked(call.rows[1]))
                          ELSE IF k = 2
                          THEN RowLine([i \in 1..Len(call.rows[1]) |-> <<"-", "-", "-">>])
                          ELSE RowLine(call.rows[k - 1])]
               /\ Lines(ret[1].val) =
                      Append(SubSeq(Lines(ret[1].val), 1, Len(call.rows) + 1), <<>>)

\* C12 witness: a table with a marked first header cell, a mark in a data
\* cell and an empty cell has been rendered
C12_Witness ==
    /\ ret # <<>>
    /\ call.fn = "ResultsGenerator._generate_table"
    /\ call.rows = <<<<<<BOM>> \o <<"P", "l", "a", "c", "e">>, <<"N", "a", "m", "e">>>>,
                     <<<<BOM>> \o <<"1">>, <<>>>>,
                     <<<<"1">>, <<"A", "n", "n", " ", "L", "e", "e">>>>>>
    /\ ret[1].ok

(***************************************************************************)
(* Tables without rows                                                     *)
(***************************************************************************)
\* the documents the tournament has written
DocumentsOf(csv_path) == {posts_dir.files[f] : f \in OutputsOf(csv_path)}

\* the text holds a header line followed by the separator line of the columns
HasTableHead(text, columns) ==
    \E lines \in {Lines(text)} : \E k \in 1..(Len(lines) - 1) :
        /\ StartsWith(lines[k], <<"|", " ">>)
        /\ lines[k + 1] = RowLine([i \in 1..columns |-> <<"-", "-", "-">>])

\* C13: an empty table is a valid state, not an error: a table source with
\* zero rows, beside metadata whose date resolves, makes the unit succeed
\* with a document made of the header block followed by the single
\* placeholder line *No data available*, and never a header/separator
\* table; the document of a table with at least one row holds a header line
\* and a separator line instead of the placeholder.
C13_EmptyTableIsValid ==
    \A csv_path \in Attempted :
        CsvReader_read(csv_path.csv).ok =>
            IF csv_path.csv.rows = <<>>
            THEN /\ BadDatePartsOf(csv_path) = {} =>
                        /\ ErrorsOf(csv_path) = {}
                        /\ DocumentsOf(csv_path) # {}
                 /\ \A text \in DocumentsOf(csv_path) :
                        /\ StartsWith(text, <<"-", "-", "-", "\n">>)
                        /\ EndsWith(text, <<"\n", "*", "N", "o", " ", "d", "a", "t", "a", " ",
                                "a", "v", "a", "i", "l", "a", "b", "l", "e", "*", "\n">>)
                        /\ \A line \in Range(Lines(text)) : ~StartsWith(line, <<"|">>)
            ELSE \A text \in DocumentsOf(csv_path) :
                     /\ HasTableHead(text, Len(csv_path.csv.rows[1]))
                     /\ <<"*", "N", "o", " ", "d", "a", "t", "a", " ", "a", "v", "a", "i", "l",
                          "a", "b", "l", "e", "*">> \notin Range(Lines(text))

\* C13 witness: an empty table source beside metadata with all the keys has
\* been taken and has its document
C13_Witness ==
    \E csv_path \in Attempted :
        /\ csv_path.csv = CsvFile(0, "none", <<>>)
        /\ csv_path.md = FullMd
        /\ DocumentsOf(csv_path) # {}

(***************************************************************************)
(* FrontmatterParser.parse on its own, over the text of .md files          *)
(***************************************************************************)
\* the most lines between the opening and the closing of a header block
MaxHeaderLines == 2

\* how a file begins, before the lines of its header block
Openers == {<<"-", "-", "-", "\n">>, <<"-", "-", "-", "-", "\n">>, <<"-", "-", "-">>, <<"I",
        "n", "t", "r", "o", "\n">>, <<>>}

HeaderLines ==
    {<<"t", "i", "t", "l", "e", ":", " ", "a", "-", "-", "-", "\n">>,
     <<"t", "i", "t", "l", "e", ":", " ", "\"", "A", ":", " ", "b", "\"", "\n">>,
     <<"T", "i", "t", "l", "e", ":", " ", "x", "\n">>,
     <<"t", "i", "t", "l", "e", ":", " ", "y", "\n">>,
     <<"n", "o", " ", "s", "e", "p", "a", "r", "a", "t", "o", "r", "\n">>,
     <<"n", "o", "t", "e", ":", " ", "\"", "\"", "q", "\"", "\"", "\n">>,
     <<" ", "k", "e", "y", " ", ":", " ", " ", "'", "v", "'", " ", "\n">>,
     <<"\n">>}

\* how a header block ends
Closers == {<<"-", "-", "-", "\n">>, <<"-", "-", "-">>, <<"-", "-", "-", "-", "\n">>, <<>>}

Bodies == {<<>>, <<"G", "r", "e", "a", "t", " ", "d", "a", "y", ".", "\n">>, <<"\n", "A", " ",
        "-", "-", "-", " ", "B", " ", "\n">>}

RECURSIVE Concat(_)
Concat(texts) == IF texts = <<>> THEN <<>> ELSE Head(texts) \o Concat(Tail(texts))

\* the texts with n lines between what opens and what closes them
Contents(n) ==
    {o \o Concat(h) \o c \o b :
        o \in Openers, h \in [1..n -> HeaderLines], c \in Closers, b \in Bodies}

InitParse ==
    /\ NoRun
    /\ call \in {[fn |-> "FrontmatterParser.parse", content |-> content] :
                    content \in UNION {Contents(n) : n \in 0..MaxHeaderLines}}
    /\ ret = <<>>

Parse ==
    /\ call.fn = "FrontmatterParser.parse"
    /\ ret = <<>>
    /\ \E parsed \in {FrontmatterParser_parse(call.content)} :
           ret' = <<[map |-> parsed[1], body |-> parsed[2]]>>
    /\ UNCHANGED <<run_vars, call>>

NextParse == Parse

SpecParse == InitParse /\ [][NextParse]_vars

\* a line that consists solely of three or more delimiter characters
IsDelimiterLine(line) == Len(line) >= 3 /\ \A i \in 1..Len(line) : line[i] = "-"

\* the lines of the text parse was given
ContentLines == Lines(call.content)

\* the text begins with a delimiter line
Opened == IsDelimiterLine(ContentLines[1])

\* the later lines of the text that are delimiter lines
ClosingLines == {k \in 2..Len(ContentLines) : IsDelimiterLine(ContentLines[k])}

\* the first of them
Closing == CHOOSE k \in ClosingLines : \A j \in ClosingLines : k <= j

Parsed == ret # <<>> /\ call.fn = "FrontmatterParser.parse"

\* C14: MetadataParser.parse is total and degrades gracefully: for every
\* input it returns a (map, body) pair; when the content does not begin with
\* the delimiter line, or begins with it but has no second delimiter line,
\* the map is empty and the body is the entire content trimmed.
C14_ParseDegradesGracefully ==
    Parsed =>
        /\ DOMAIN ret[1] = {"map", "body"}
        /\ (~Opened \/ ClosingLines = {}) =>
               /\ ret[1].map = <<>>
               /\ ret[1].body = Strip(call.content, Whitespace)

\* C15: the header block is opened and closed only by delimiter lines:
\* whenever the content begins with such a line and a later line is also
\* such a line (including when it is the last line of the file), the header
\* text is exactly the lines between the two, so that the map is what these
\* lines give, and the body is the trimmed text after the closing line; a
\* run of delimiter characters at the end of a longer line does not close
\* the block.
C15_BlockBetweenDelimiterLines ==
    (Parsed /\ Opened /\ ClosingLines # {}) =>
        /\ ret[1].map =
               FrontmatterParser_parse_frontmatter_lines(
                   Join(<<"\n">>, SubSeq(ContentLines, 2, Closing - 1)))
        /\ ret[1].body =
               Strip(Join(<<"\n">>, SubSeq(ContentLines, Closing + 1, Len(ContentLines))),
                     Whitespace)

\* the block opens with the line ---, closes with a line --- that a newline
\* ends, and none of its lines ends with ---: the lines between are the
\* header block
ProperBlock ==
    /\ ContentLines[1] = <<"-", "-", "-">>
    /\ ClosingLines # {}
    /\ ContentLines[Closing] = <<"-", "-", "-">>
    /\ Closing < Len(ContentLines)
    /\ \A k \in 2..(Closing - 1) : ~EndsWith(ContentLines[k], <<"-", "-", "-">>)

\* the lines of the header block that hold a ":"
EntryLines == {k \in 2..(Closing - 1) : HasChar(ContentLines[k], ":")}

\* the text before the first ":" of the line, trimmed
KeyOf(line) == Strip(Split(line, <<":">>, 1)[1], Whitespace)

\* the text with one layer of surrounding single or double quotes removed
OneLayerOff(value) ==
    IF Len(value) >= 2 /\ value[1] = value[Len(value)] /\ value[1] \in {"\"", "'"}
    THEN SubSeq(value, 2, Len(value) - 1) ELSE value

\* the text after the first ":" of the line, trimmed, one layer of quotes off
ValueOf(line) == OneLayerOff(Strip(Split(line, <<":">>, 1)[2], Whitespace))

\* C16: header-block line parsing: a line without a ":" contributes no
\* entry; a line with a ":" contributes the entry (text before the first ":"
\* trimmed) -> (text after it trimmed, with exactly one layer of surrounding
\* single or double quotes removed and any further quote characters kept);
\* keys are compared case-sensitively and when a key occurs more than once
\* the value of its last occurrence is the one in the map.
C16_HeaderLineParsing ==
    (Parsed /\ ProperBlock) =>
        /\ Range(DictKeys(ret[1].map)) = {KeyOf(ContentLines[k]) : k \in EntryLines}
        /\ \A k \in EntryLines :
               /\ Occurrences(ret[1].map, KeyOf(ContentLines[k])) = 1
               /\ (\A j \in EntryLines :
                       KeyOf(ContentLines[j]) = KeyOf(ContentLines[k]) => j <= k)
                  => DictGet(ret[1].map, KeyOf(ContentLines[k])) = ValueOf(ContentLines[k])

(***************************************************************************)
(* Serialization of the merged metadata                                    *)
(***************************************************************************)
\* the value as the header writes it: in double quotes if and only if it
\* holds a space or a ":", its characters unchanged
Written(value) ==
    IF \E i \in 1..Len(value) : value[i] \in {" ", ":"}
    THEN <<"\"">> \o value \o <<"\"">> ELSE value

\* C17: header serialization: the serialized metadata is a block opened and
\* closed by a delimiter line with exactly one key: value line per entry of
\* the merged map, in map order; a value is wrapped in double quotes if and
\* only if it contains a space or a ":", and is emitted unchanged otherwise,
\* with embedded quote characters passed through without escaping.
C17_HeaderSerialization ==
    (ret # <<>> /\ call.fn = "FrontmatterBuilder.build") =>
        \E lines \in {Lines(ret[1].text)} :
            /\ Len(lines) = Len(ret[1].merged) + 3
            /\ lines[1] = <<"-", "-", "-">>
            /\ lines[Len(lines) - 1] = <<"-", "-", "-">>
            /\ lines[Len(lines)] = <<>>
            /\ \A i \in 1..Len(ret[1].merged) :
                   lines[i + 1] = ret[1].merged[i][1] \o <<":", " ">>
                                  \o Written(ret[1].merged[i][2])

\* C17 witness: a map with a value holding a colon and no space and a value
\* holding quote characters has been serialized
C17_Witness ==
    /\ ret # <<>>
    /\ call.fn = "FrontmatterBuilder.build"
    /\ \E i \in 1..Len(ret[1].merged) : ret[1].merged[i][2] = <<"a", ":", "b">>
    /\ \E i \in 1..Len(ret[1].merged) : ret[1].merged[i][2] = <<"A", "n", "n", "'", "s", " ",
            "\"", "A", "\"">>

(***************************************************************************)
(* The document of a tournament                                            *)
(***************************************************************************)
\* the metadata map and the body text of the tournament's .md file
ParsedOf(csv_path) ==
    IF csv_path.md.exists /\ csv_path.md.decodable
    THEN FrontmatterParser_parse(csv_path.md.content) ELSE <<<<>>, <<>>>>

BodyOf(csv_path) == ParsedOf(csv_path)[2]

\* the date of the header: the metadata's date value, or else the current date
HeaderDate(metadata) == DictGetOr(metadata, <<"d", "a", "t", "e">>, now)

\* the date of the file name: the date part of that value, or else the
\* current date
FilenameDate(metadata) ==
    IF DictHas(metadata, <<"d", "a", "t", "e">>)
    THEN BeforeSeparator(DictGet(metadata, <<"d", "a", "t", "e">>)) ELSE now

\* the body text followed by a blank line, or nothing when there is no body
BodyPart(body) == IF body = <<>> THEN <<>> ELSE body \o <<"\n", "\n">>

\* C18: document assembly and naming: for every successful unit the written
\* document is the serialized header block, then the body text followed by a
\* blank line when the body is non-empty (and nothing when it is empty),
\* then the rendered table; and the document is written to the file named
\* {filename-date}-{input-stem}.md in the output directory, and to no other.
C18_DocumentAssembly ==
    \A csv_path \in Attempted :
        ErrorsOf(csv_path) = {} =>
            \E parsed \in {ParsedOf(csv_path)} :
                \E name \in {FilenameDate(parsed[1]) \o <<"-">> \o csv_path.stem \o <<".", "m",
                        "d">>} :
                    /\ OutputsOf(csv_path) = {name}
                    /\ posts_dir.files[name] =
                           ResultsGenerator_build_frontmatter(
                               csv_path, parsed[1], HeaderDate(parsed[1]))
                           \o BodyPart(parsed[2])
                           \o TableFormatter_format(csv_path.csv.rows)

\* C18 witness: a unit with a body text and a date with a time has written
\* its document under the date part, and the body comes before the table
C18_Witness ==
    \E csv_path \in Attempted :
        /\ BodyOf(csv_path) = <<"G", "r", "e", "a", "t", " ", "d", "a", "y", ".", "\n", "\n",
                                "T", "h", "a", "n", "k", "s", " ", "a", "l", "l", ".">>
        /\ OutputsOf(csv_path) = {<<"2", "0", "2", "5", "-", "1", "2", "-", "2", "0", "-">> \o csv_path.stem \o <<
                ".", "m", "d">>}
        /\ \A text \in DocumentsOf(csv_path) :
               Find(text, <<"T", "h", "a", "n", "k", "s", " ", "a", "l", "l", ".", "\n", "\n",
                            "|", " ", "P", "l", "a", "c", "e">>, 1) # 0

(***************************************************************************)
(* Runs without input                                                      *)
(***************************************************************************)
\* the source directory does not exist or holds no CSV file
NoInput == ~source_dir.exists \/ source_dir.files = <<>>

\* C19: a run with no input is a success: when the source directory does not
\* exist or contains no table-source file, the batch has zero units, writes
\* no output document, records no failure and ends normally, with a warning,
\* rather than with the failure exit status.
C19_NoInputIsSuccess ==
    NoInput =>
        /\ csv_files = <<>>
        /\ \A k \in 1..Len(log) : log[k].level # "processing"
        /\ DOMAIN posts_dir.files = {}
        /\ errors = <<>>
        /\ exit_code # <<1>>
        /\ Done =>
               /\ pc = "returned"
               /\ exit_code = <<0>>
               /\ log[Len(log)].level = "warning"

\* C19 witness: a run without a source directory has ended
C19_Witness == Done /\ ~source_dir.exists

(***************************************************************************)
(* The size of the table source                                            *)
(***************************************************************************)
\* the most bytes a table source may have
MaxBytes == CsvReader_MAX_SIZE_MB * 1024 * 1024

\* the failure recorded is the one of the size check
IsSizeError(message) == StartsWith(message, <<"C", "S", "V", " ", "f", "i", "l", "e", " ", "t",
        "o", "o", " ", "l", "a", "r", "g", "e", ":", " ">>)

\* C20: size pre-check: a table source whose size exceeds the maximum is
\* rejected before any of its content or its metadata source is read or
\* parsed, so that the failure recorded is the one of the size, whatever the
\* rows and the metadata are; the rejection fails that unit only: it is
\* recorded once, as a validation error, and when the run has ended the
\* other units that are valid on their own have their documents; and a table
\* source whose size is at most the maximum is never rejected for its size.
C20_SizePreCheck ==
    \A csv_path \in Attempted :
        csv_path.csv.fault # "stat" =>
            IF csv_path.csv.size > MaxBytes
            THEN /\ OutputsOf(csv_path) = {}
                 /\ Cardinality(ErrorsOf(csv_path)) = 1
                 /\ \A k \in ErrorsOf(csv_path) : IsSizeError(errors[k][2])
                 /\ ValidationErrorLines(csv_path) # {}
                 /\ Done => \A other \in Attempted \ {csv_path} :
                        Alone(other).ok => OutputsOf(other) # {}
            ELSE \A k \in ErrorsOf(csv_path) : ~IsSizeError(errors[k][2])

\* C20 witness: of two units taken, the first is over the maximum, has rows
\* of unequal width and a bad date beside it, and was rejected; the second
\* is exactly at the maximum and has its document
C20_Witness ==
    /\ next_file = 3
    /\ csv_files[1].csv.size = MaxBytes + 1
    /\ csv_files[1].md = BadDateMd
    /\ ErrorsOf(csv_files[1]) # {}
    /\ csv_files[2].csv.size = MaxBytes
    /\ OutputsOf(csv_files[2]) # {}

(***************************************************************************)
(* The batch run twice: the script is started again once its first run has *)
(* ended, over the same files, which glob may list in another order.  call *)
(* counts the runs; ret keeps the files of posts_dir as the first run left *)
(* them.  The first run finds no _posts/results and creates it; the second *)
(* finds it with the first run's files.                                    *)
(***************************************************************************)
\* the orders in which glob can list the files
GlobOrders(files) ==
    {[i \in 1..Len(files) |-> files[p[i]]] :
        p \in {q \in [1..Len(files) -> 1..Len(files)] :
                  \A i, j \in 1..Len(files) : i # j => q[i] # q[j]}}

InitTwice ==
    /\ source_dir \in
           {[exists |-> FALSE, files |-> <<>>]}
           \cup {[exists |-> TRUE, files |-> fs] :
                    fs \in UNION {Listings(n) : n \in 0..MaxFiles}}
    /\ posts_dir = [exists |-> FALSE, files |-> NoFiles]
    /\ now \in Todays
    /\ pc = "run"
    /\ csv_files = <<>>
    /\ next_file = 1
    /\ errors = <<>>
    /\ log = <<>>
    /\ exit_code = <<>>
    /\ call = [fn |-> "ResultsGenerator.run", runs |-> 1]
    /\ ret = <<>>

\* the script started a second time: a new ResultsGenerator, the same date
RunAgain ==
    /\ pc \in {"returned", "exited"}
    /\ call.runs = 1
    /\ call' = [call EXCEPT !.runs = 2]
    /\ ret' = <<posts_dir.files>>
    /\ source_dir' \in {[source_dir EXCEPT !.files = fs] :
                           fs \in GlobOrders(source_dir.files)}
    /\ pc' = "run"
    /\ csv_files' = <<>>
    /\ next_file' = 1
    /\ errors' = <<>>
    /\ log' = <<>>
    /\ exit_code' = <<>>
    /\ UNCHANGED <<posts_dir, now>>

NextTwice == Next \/ RunAgain

SpecTwice == InitTwice /\ [][NextTwice]_vars

\* C21: idempotence of the batch: with unchanged inputs and a fixed current
\* date, when the second run of the batch has ended the output directory
\* holds exactly the files, with exactly the contents, that the first run
\* left, in whatever order the second run found the units.
C21_BatchIdempotent ==
    (call # <<>> /\ call.fn = "ResultsGenerator.run" /\ call.runs = 2 /\ Done) =>
        /\ DOMAIN posts_dir.files = DOMAIN ret[1]
        /\ \A f \in DOMAIN ret[1] : posts_dir.files[f] = ret[1][f]

\* C21 witness: the second run has ended, it took two units in the other
\* order than the first run, one of which fails, and a document is there
C21_Witness ==
    /\ call # <<>> /\ call.fn = "ResultsGenerator.run" /\ call.runs = 2
    /\ Done
    /\ Len(csv_files) = 2
    /\ csv_files[1].stem = Stems[2]
    /\ Len(errors) = 1
    /\ DOMAIN posts_dir.files # {}

\* a step in which a unit's pipeline ran to its end without an error
UnitSucceeds == next_file' = next_file + 1 /\ errors' = errors

\* C22: output paths are unique within a run (the stems of the files of one
\* directory being pairwise distinct): every unit that succeeds writes to a
\* path no earlier unit of the run wrote to, whatever their dates, and no
\* step of the run alters or removes a document an earlier unit wrote.
C22_OutputPathsUnique ==
    [][/\ \A f \in DOMAIN posts_dir.files :
              /\ f \in DOMAIN posts_dir'.files
              /\ posts_dir'.files[f] = posts_dir.files[f]
       /\ UnitSucceeds =>
              Cardinality(DOMAIN posts_dir'.files)
                  = Cardinality(DOMAIN posts_dir.files) + 1]_vars

\* C22 witness: two units without metadata, which resolve to the same date,
\* have both succeeded and the directory holds a document of each
C22_Witness ==
    /\ next_file = 3
    /\ errors = <<>>
    /\ csv_files[1].md = NoMdFile
    /\ csv_files[2].md = NoMdFile
    /\ OutputsOf(csv_files[1]) # {}
    /\ OutputsOf(csv_files[2]) # {}
    /\ OutputsOf(csv_files[1]) \cap OutputsOf(csv_files[2]) = {}
    /\ Cardinality(DOMAIN posts_dir.files) = 2

(***************************************************************************)
(* The header of a document read back: FrontmatterParser.parse on the text *)
(* FrontmatterBuilder.build makes of a user map that FrontmatterParser.parse*)
(* read from a .md file, merged with the defaults of a unit                *)
(***************************************************************************)
RoundLines ==
    {<<"t", "i", "t", "l", "e", ":", " ", "\"", "S", "t", "a", "t", "e", ":", " ", "F", "i",
       "n", "a", "l", "s", "\"">>,
     <<"t", "i", "t", "l", "e", ":", " ", "'", "\"", "F", "i", "n", "a", "l", "s", "\"", "'">>,
     <<"t", "a", "g", "s", ":", " ", "\"", "a", "-", "-", "-", "\"">>,
     <<"a", "u", "t", "h", "o", "r", ":", " ", "M", "N", "H", "S", "F", "L">>,
     <<"e", "x", "c", "e", "r", "p", "t", ":", " ", "\"", "W", "i", "n", "n", "e", "r", "'",
       "s", " ", "b", "r", "a", "c", "k", "e", "t", ":", " ", "G", "o", "l", "d", "\"">>,
     <<"d", "a", "t", "e", ":", " ", "2", "0", "2", "5", "-", "0", "3", "-", "1", "5">>,
     <<"l", "a", "y", "o", "u", "t", ":", " ", "p", "a", "g", "e">>,
     <<"n", "o", "t", "e", ":">>}

\* the .md files whose header block has n of these lines
RoundContents(n) ==
    {Delimiter \o Concat([i \in 1..n |-> ls[i] \o <<"\n">>]) \o Delimiter \o <<"G", "r", "e",
            "a", "t", " ", "d", "a", "y", ".", "\n">> :
        ls \in [1..n -> RoundLines]}

InitRound ==
    /\ NoRun
    /\ call \in {[fn |-> "FrontmatterParser.parse of FrontmatterBuilder.build",
                  content |-> content, defaults |-> d] :
                    content \in UNION {RoundContents(n) : n \in 0..MaxHeaderLines},
                    d \in DefaultMaps}
    /\ ret = <<>>

\* the .md file parsed, its map merged with the defaults and serialized
BuildParsed ==
    /\ call.fn = "FrontmatterParser.parse of FrontmatterBuilder.build"
    /\ ret = <<>>
    /\ \E user_data \in {FrontmatterParser_parse(call.content)[1]} :
           ret' = <<[user_data |-> user_data,
                     merged |-> FrontmatterBuilder_merge_frontmatter(
                                    user_data, call.defaults),
                     text |-> FrontmatterBuilder_build(user_data, call.defaults)]>>
    /\ UNCHANGED <<run_vars, call>>

\* the serialized header parsed
ParseBuilt ==
    /\ call.fn = "FrontmatterParser.parse of FrontmatterBuilder.build"
    /\ Len(ret) = 1
    /\ \E parsed \in {FrontmatterParser_parse(ret[1].text)} :
           ret' = Append(ret, [map |-> parsed[1], body |-> parsed[2]])
    /\ UNCHANGED <<run_vars, call>>

NextRound == BuildParsed \/ ParseBuilt

SpecRound == InitRound /\ [][NextRound]_vars

\* C23: header round trip: for every merged map made from a parsed user map,
\* parsing the serialized header block yields a map with the same keys and
\* the same values, and an empty body.
C23_HeaderRoundTrip ==
    (call # <<>> /\ call.fn = "FrontmatterParser.parse of FrontmatterBuilder.build"
        /\ Len(ret) = 2) =>
        \A merged \in {ret[1].merged} : \A again \in {ret[2]} :
            /\ Range(DictKeys(again.map)) = Range(DictKeys(merged))
            /\ \A k \in Range(DictKeys(merged)) :
                   DictHas(again.map, k) /\ DictGet(again.map, k) = DictGet(merged, k)
            /\ again.body = <<>>
====
